---- MODULE Spec2Model ----
(***************************************************************************)
(* Beacon operation-pool HTTP handlers                                     *)
(* (prysm/beacon-chain/rpc/eth/beacon/handlers_pool.go).                   *)
(*                                                                         *)
(* Every HTTP handler is one action: the whole handler runs, the calls it  *)
(* makes on its collaborators (notifier, broadcaster, pools, core service) *)
(* are appended to `log` in the order the code makes them, and the         *)
(* response it writes is left in `response`.  The background goroutine     *)
(* spawned by SubmitBLSToExecutionChanges is a process of its own          *)
(* (`loops`), one action per call of broadcastBLSBatch, driven by a        *)
(* time.Ticker modelled over the discrete clock `now`.                     *)
(***************************************************************************)
EXTENDS Integers, Sequences, FiniteSets, TLC

VARIABLES
    pc,          \* "idle" before the request of this behaviour, "done" after the handler returned
    ep,          \* endpoint that served the request ("none" before)
    request,     \* the request served: [hdr, body]
    response,    \* what the handler wrote: [status, kind, failures, indices, data, version, extra, header]
    log,         \* collaborator calls of the request, in program order
    aggPool,     \* AttestationsPool, aggregated entries (enumeration order)
    unaggPool,   \* AttestationsPool, unaggregated entries (enumeration order)
    blsPool,     \* BLSChangesPool
    head,        \* head state served by ChainInfoFetcher: [version, invalid, slot]
    loops,       \* goroutines running broadcastBLSChanges
    now,         \* clock, in milliseconds
    exitsPool,   \* VoluntaryExitsPool (enumeration order)
    slashingsPool, \* SlashingsPool: attester and proposer slashings (enumeration order)
    features     \* features.Get(): [DisableBroadcastSlashings]

vars == <<pc, ep, request, response, log, aggPool, unaggPool, blsPool, head, loops, now,
          exitsPool, slashingsPool, features>>

-----------------------------------------------------------------------------
(* Bounds of the model *)

MaxBatch == 2          \* longest attestation / sync-message batch explored item by item
MaxBLSBatch == 2       \* longest BLS-change batch explored item by item

-----------------------------------------------------------------------------
(* runtime/version: the canonical fork order *)

Phase0 == 0
Altair == 1
Bellatrix == 2
Capella == 3
Deneb == 4
Electra == 5

VersionNames == <<"phase0", "altair", "bellatrix", "capella", "deneb", "electra">>

\* version.String
VersionString(v) == VersionNames[v + 1]

\* a faulty variant of FromString: a name that is no fork's is taken for phase0
FromString_AcceptAll(s) ==
    IF \E v \in Phase0..Electra : VersionNames[v + 1] = s
    THEN [err |-> FALSE, v |-> CHOOSE v \in Phase0..Electra : VersionNames[v + 1] = s]
    ELSE [err |-> FALSE, v |-> Phase0]

\* version.FromString: the fork of a name, or an error for a name that is no fork's
FromString(s) ==
    IF \E v \in Phase0..Electra : VersionNames[v + 1] = s
    THEN [err |-> FALSE, v |-> CHOOSE v \in Phase0..Electra : VersionNames[v + 1] = s]
    ELSE [err |-> TRUE, v |-> Phase0]

\* values of the Eth-Consensus-Version request header explored
Headers == {"", "bogus", "deneb", "electra"}

-----------------------------------------------------------------------------
(* HTTP status codes and responses *)

StatusOK == 200
StatusBadRequest == 400
StatusInternalServerError == 500

NoResponse == [status |-> 0, kind |-> "none", failures |-> <<>>, indices |-> <<>>,
     data |-> <<>>, version |-> "", extra |-> <<>>, header |-> ""]

\* httputil.HandleError(w, msg, code)
HandleError(kind, code) == [status |-> code, kind |-> kind, failures |-> <<>>, indices |-> <<>>,
     data |-> <<>>, version |-> "", extra |-> <<>>, header |-> ""]

\* the handler returns without writing: net/http answers 200 with an empty body
EmptyOK == [status |-> StatusOK, kind |-> "ok", failures |-> <<>>, indices |-> <<>>,
     data |-> <<>>, version |-> "", extra |-> <<>>, header |-> ""]

\* httputil.WriteError(w, &server.IndexedVerificationFailureError{Code: 400, Failures: f})
WriteFailures(f) ==
    [status |-> StatusBadRequest, kind |-> "failures", failures |-> f, indices |-> <<>>,
     data |-> <<>>, version |-> "", extra |-> <<>>, header |-> ""]

\* a request body: kind "absent" (io.EOF), "garbage" (not JSON), "notlist"
\* (JSON of another shape than the list expected) or "list" with its items
Body(kind, items) == [kind |-> kind, items |-> items]

\* one collaborator call (or per-item check) of a handler
Ev(e, id, ok) == [e |-> e, id |-> id, ok |-> ok]

-----------------------------------------------------------------------------
(* Attestations: wire items, conversion, aggregation status *)

\* A submitted attestation: pos is its position in the batch (its identity),
\* conv whether ToConsensus accepts it, sig whether its signature bytes
\* parse, bits the number of aggregation bits set, cbits whether a committee
\* index can be derived from its committee bits (Electra variant only).
AttItem(p, conv, sig, bits, cbits) ==
    [pos |-> p, conv |-> conv, sig |-> sig, bits |-> bits, cbits |-> cbits]

AttKinds(p) ==
    {AttItem(p, FALSE, TRUE, 1, TRUE), AttItem(p, TRUE, FALSE, 1, TRUE)}
        \cup {AttItem(p, TRUE, TRUE, b, c) : b \in {1, 2}, c \in BOOLEAN}

AttBodiesOfLen(n) == {b \in [1..n -> UNION {AttKinds(p) : p \in 1..n}] : \A p \in 1..n : b[p].pos = p}

\* request bodies: absent (io.EOF), not JSON, JSON that is no list of
\* attestations, or a list (possibly empty) of attestations
AttBodies ==
    {Body(k, <<>>) : k \in {"absent", "garbage", "notlist"}}
        \cup {Body("list", b) : b \in UNION {AttBodiesOfLen(n) : n \in 0..MaxBatch}}

\* structs.Attestation.ToConsensus / structs.AttestationElectra.ToConsensus
AttToConsensus(a, variant) == [pos |-> a.pos, bits |-> a.bits, cbits |-> a.cbits, variant |-> variant]

\* corehelpers.IsAggregated: more than one aggregation bit set
IsAggregated(att) == att.bits > 1

\* outcomes of the collaborator calls made for one Phase-B item:
\* HeadValidatorsIndices fails / BroadcastAttestation fails / the pool save
\* fails / all succeed
AttOutcomes == {"valsErr", "bcastErr", "saveErr", "ok"}

\* AttestationsPool.SaveAggregatedAttestation / SaveUnaggregatedAttestation
SaveAtt(pool, att) == IF \E k \in 1..Len(pool) : pool[k] = att THEN pool ELSE Append(pool, att)

-----------------------------------------------------------------------------
(* handleAttestations (pre-Electra variant) *)

\* what a handler of a batch accumulates while it runs
AttAcc(agg, unagg) ==
    [validAttestations |-> <<>>, attFailures |-> <<>>, failedBroadcasts |-> <<>>,
     log |-> <<>>, agg |-> agg, unagg |-> unagg, fatal |-> FALSE]

\* result of a handler of a batch: the two lists, the error, and the calls made
AttResult(attFailures, failedBroadcasts, err, acc) ==
    [attFailures |-> attFailures, failedBroadcasts |-> failedBroadcasts, err |-> err,
     log |-> acc.log, agg |-> acc.agg, unagg |-> acc.unagg]

\* a faulty variant of attPhaseAStep: an item that fails is dropped without
\* a failure being recorded
attPhaseAStep_SilentDrop(a, i, acc) ==
    IF ~a.conv \/ ~a.sig THEN
        [acc EXCEPT !.log = Append(@, Ev("validate", a.pos, FALSE))]
    ELSE
        [acc EXCEPT !.validAttestations = Append(@, AttToConsensus(a, "base")),
                    !.log = Append(@, Ev("validate", a.pos, TRUE))]

\* a faulty variant of attPhaseAStep: the feed event of an item is sent as
\* soon as the item is converted, while later items are still unvalidated
attPhaseAStep_NotifyEarly(a, i, acc) ==
    IF ~a.conv THEN
        [acc EXCEPT !.attFailures = Append(@, [Index |-> i - 1, Message |-> "convert"]),
                    !.log = Append(@, Ev("validate", a.pos, FALSE))]
    ELSE IF ~a.sig THEN
        [acc EXCEPT !.attFailures = Append(@, [Index |-> i - 1, Message |-> "signature"]),
                    !.log = Append(@, Ev("validate", a.pos, FALSE))]
    ELSE
        [acc EXCEPT !.validAttestations = Append(@, AttToConsensus(a, "base")),
                    !.log = Append(Append(@, Ev("validate", a.pos, TRUE)),
                                   Ev("notify", a.pos, TRUE))]

\* body of the first loop of handleAttestations, for the item a at batch
\* index i (from 1 here, from 0 in the failures reported)
attPhaseAStep(a, i, acc) ==
    IF ~a.conv THEN
        [acc EXCEPT !.attFailures = Append(@, [Index |-> i - 1, Message |-> "convert"]),
                    !.log = Append(@, Ev("validate", a.pos, FALSE))]
    ELSE IF ~a.sig THEN
        [acc EXCEPT !.attFailures = Append(@, [Index |-> i - 1, Message |-> "signature"]),
                    !.log = Append(@, Ev("validate", a.pos, FALSE))]
    ELSE
        [acc EXCEPT !.validAttestations = Append(@, AttToConsensus(a, "base")),
                    !.log = Append(@, Ev("validate", a.pos, TRUE))]

RECURSIVE attPhaseA(_, _, _)
attPhaseA(src, i, acc) ==
    IF i > Len(src) THEN acc
    ELSE attPhaseA(src, i + 1, attPhaseAStep(src[i], i, acc))

\* a faulty variant of attNotify: the feed event is sent for every
\* attestation, aggregated or not
attNotify_Always(att, acc) ==
    [acc EXCEPT !.log = Append(@, Ev("notify", att.pos, TRUE))]

\* the feed event sent for an unaggregated attestation
attNotify(att, acc) ==
    IF ~IsAggregated(att)
    THEN [acc EXCEPT !.log = Append(@, Ev("notify", att.pos, TRUE))]
    ELSE acc

\* a faulty variant of attSave: nothing is saved once an earlier item of
\* the batch failed its lookup or its broadcast
attSave_SkipAfterFailure(att, saved, acc) ==
    IF Len(acc.failedBroadcasts) > 0 THEN acc
    ELSE IF IsAggregated(att)
    THEN [acc EXCEPT !.log = Append(@, Ev("insertAgg", att.pos, saved)),
                     !.agg = IF saved THEN SaveAtt(@, att) ELSE @]
    ELSE [acc EXCEPT !.log = Append(@, Ev("insertUnagg", att.pos, saved)),
                     !.unagg = IF saved THEN SaveAtt(@, att) ELSE @]

\* the pool save that ends an item's iteration; a save error is only logged
attSave(att, saved, acc) ==
    IF IsAggregated(att)
    THEN [acc EXCEPT !.log = Append(@, Ev("insertAgg", att.pos, saved)),
                     !.agg = IF saved THEN SaveAtt(@, att) ELSE @]
    ELSE [acc EXCEPT !.log = Append(@, Ev("insertUnagg", att.pos, saved)),
                     !.unagg = IF saved THEN SaveAtt(@, att) ELSE @]

\* a faulty variant of attPhaseBStep: the pool save is made before the
\* broadcast
attPhaseBStep_SaveFirst(att, i, outcome, acc) ==
    LET a1 == attNotify(att, acc) IN
    IF outcome = "valsErr" THEN
        [a1 EXCEPT !.failedBroadcasts = Append(@, i - 1),
                   !.log = Append(@, Ev("vals", att.pos, FALSE))]
    ELSE
        LET a2 == attSave(att, outcome # "saveErr",
                          [a1 EXCEPT !.log = Append(@, Ev("vals", att.pos, TRUE))])
        IN IF outcome = "bcastErr"
           THEN [a2 EXCEPT !.failedBroadcasts = Append(@, i - 1),
                           !.log = Append(@, Ev("bcast", att.pos, FALSE))]
           ELSE [a2 EXCEPT !.log = Append(@, Ev("bcast", att.pos, TRUE))]

\* a faulty variant of attPhaseBStep: an item whose broadcast failed is
\* saved in the pool all the same
attPhaseBStep_SaveOnBroadcastFailure(att, i, outcome, acc) ==
    LET a1 == attNotify(att, acc) IN
    IF outcome = "valsErr" THEN
        [a1 EXCEPT !.failedBroadcasts = Append(@, i - 1),
                   !.log = Append(@, Ev("vals", att.pos, FALSE))]
    ELSE IF outcome = "bcastErr" THEN
        attSave(att, TRUE,
            [a1 EXCEPT !.failedBroadcasts = Append(@, i - 1),
                       !.log = Append(Append(@, Ev("vals", att.pos, TRUE)),
                                      Ev("bcast", att.pos, FALSE))])
    ELSE
        attSave(att, outcome = "ok",
            [a1 EXCEPT !.log = Append(Append(@, Ev("vals", att.pos, TRUE)),
                                      Ev("bcast", att.pos, TRUE))])

\* a faulty variant of attPhaseBStep: when the validator lookup fails the
\* item is broadcast and saved all the same
attPhaseBStep_LookupErrorIgnored(att, i, outcome, acc) ==
    LET a1 == attNotify(att, acc) IN
    IF outcome = "valsErr" THEN
        attSave(att, TRUE,
            [a1 EXCEPT !.log = Append(Append(@, Ev("vals", att.pos, FALSE)),
                                      Ev("bcast", att.pos, TRUE))])
    ELSE IF outcome = "bcastErr" THEN
        [a1 EXCEPT !.failedBroadcasts = Append(@, i - 1),
                   !.log = Append(Append(@, Ev("vals", att.pos, TRUE)),
                                  Ev("bcast", att.pos, FALSE))]
    ELSE
        attSave(att, outcome = "ok",
            [a1 EXCEPT !.log = Append(Append(@, Ev("vals", att.pos, TRUE)),
                                      Ev("bcast", att.pos, TRUE))])

\* body of the second loop of handleAttestations, for att at index i of
\* validAttestations; outcome is what the collaborators answer for it
attPhaseBStep(att, i, outcome, acc) ==
    LET a1 == attNotify(att, acc) IN
    IF outcome = "valsErr" THEN
        [a1 EXCEPT !.failedBroadcasts = Append(@, i - 1),
                   !.log = Append(@, Ev("vals", att.pos, FALSE))]
    ELSE IF outcome = "bcastErr" THEN
        [a1 EXCEPT !.failedBroadcasts = Append(@, i - 1),
                   !.log = Append(Append(@, Ev("vals", att.pos, TRUE)),
                                  Ev("bcast", att.pos, FALSE))]
    ELSE
        attSave(att, outcome = "ok",
            [a1 EXCEPT !.log = Append(Append(@, Ev("vals", att.pos, TRUE)),
                                      Ev("bcast", att.pos, TRUE))])

RECURSIVE attPhaseB(_, _, _, _)
attPhaseB(valid, i, env, acc) ==
    IF i > Len(valid) THEN acc
    ELSE attPhaseB(valid, i + 1, env, attPhaseBStep(valid[i], i, env[i], acc))

\* a faulty variant of handleAttestations: an empty list is no error
handleAttestations_AcceptEmpty(data, env, agg, unagg) ==
    IF data.kind = "notlist" THEN AttResult(<<>>, <<>>, "unmarshal", AttAcc(agg, unagg))
    ELSE LET a == attPhaseA(data.items, 1, AttAcc(agg, unagg))
             b == attPhaseB(a.validAttestations, 1, env, a)
         IN AttResult(b.attFailures, b.failedBroadcasts, "", b)

handleAttestations(data, env, agg, unagg) ==
    IF data.kind = "notlist" THEN AttResult(<<>>, <<>>, "unmarshal", AttAcc(agg, unagg))
    ELSE IF Len(data.items) = 0 THEN AttResult(<<>>, <<>>, "nodata", AttAcc(agg, unagg))
    ELSE LET a == attPhaseA(data.items, 1, AttAcc(agg, unagg))
             b == attPhaseB(a.validAttestations, 1, env, a)
         IN AttResult(b.attFailures, b.failedBroadcasts, "", b)

-----------------------------------------------------------------------------
(* handleAttestationsElectra *)

attPhaseAStepElectra(a, i, acc) ==
    IF ~a.conv THEN
        [acc EXCEPT !.attFailures = Append(@, [Index |-> i - 1, Message |-> "convert"]),
                    !.log = Append(@, Ev("validate", a.pos, FALSE))]
    ELSE IF ~a.sig THEN
        [acc EXCEPT !.attFailures = Append(@, [Index |-> i - 1, Message |-> "signature"]),
                    !.log = Append(@, Ev("validate", a.pos, FALSE))]
    ELSE
        [acc EXCEPT !.validAttestations = Append(@, AttToConsensus(a, "electra")),
                    !.log = Append(@, Ev("validate", a.pos, TRUE))]

RECURSIVE attPhaseAElectra(_, _, _)
attPhaseAElectra(src, i, acc) ==
    IF i > Len(src) THEN acc
    ELSE attPhaseAElectra(src, i + 1, attPhaseAStepElectra(src[i], i, acc))

\* a faulty variant of attPhaseBStepElectra: an item from which no committee
\* index can be derived is recorded as a failed broadcast and the loop goes on
attPhaseBStepElectra_CommitteeIndexAsFailedBroadcast(att, i, outcome, acc) ==
    LET a1 == attNotify(att, acc) IN
    IF outcome = "valsErr" THEN
        [a1 EXCEPT !.failedBroadcasts = Append(@, i - 1),
                   !.log = Append(@, Ev("vals", att.pos, FALSE))]
    ELSE IF ~att.cbits THEN
        [a1 EXCEPT !.failedBroadcasts = Append(@, i - 1),
                   !.log = Append(Append(@, Ev("vals", att.pos, TRUE)),
                                  Ev("committeeIndex", att.pos, FALSE))]
    ELSE IF outcome = "bcastErr" THEN
        [a1 EXCEPT !.failedBroadcasts = Append(@, i - 1),
                   !.log = Append(Append(@, Ev("vals", att.pos, TRUE)),
                                  Ev("bcast", att.pos, FALSE))]
    ELSE
        attSave(att, outcome = "ok",
            [a1 EXCEPT !.log = Append(Append(@, Ev("vals", att.pos, TRUE)),
                                      Ev("bcast", att.pos, TRUE))])

\* body of the second loop of handleAttestationsElectra: as attPhaseBStep,
\* with the committee index derived from the committee bits between the
\* validator lookup and the broadcast; a derivation error ends the handler
attPhaseBStepElectra(att, i, outcome, acc) ==
    LET a1 == attNotify(att, acc) IN
    IF outcome = "valsErr" THEN
        [a1 EXCEPT !.failedBroadcasts = Append(@, i - 1),
                   !.log = Append(@, Ev("vals", att.pos, FALSE))]
    ELSE IF ~att.cbits THEN
        [a1 EXCEPT !.fatal = TRUE,
                   !.log = Append(Append(@, Ev("vals", att.pos, TRUE)),
                                  Ev("committeeIndex", att.pos, FALSE))]
    ELSE IF outcome = "bcastErr" THEN
        [a1 EXCEPT !.failedBroadcasts = Append(@, i - 1),
                   !.log = Append(Append(@, Ev("vals", att.pos, TRUE)),
                                  Ev("bcast", att.pos, FALSE))]
    ELSE
        attSave(att, outcome = "ok",
            [a1 EXCEPT !.log = Append(Append(@, Ev("vals", att.pos, TRUE)),
                                      Ev("bcast", att.pos, TRUE))])

RECURSIVE attPhaseBElectra(_, _, _, _)
attPhaseBElectra(valid, i, env, acc) ==
    IF i > Len(valid) \/ acc.fatal THEN acc
    ELSE attPhaseBElectra(valid, i + 1, env, attPhaseBStepElectra(valid[i], i, env[i], acc))

\* a faulty variant of handleAttestationsElectra: when the handler ends on
\* a committee-index error the pool saves it made are undone
handleAttestationsElectra_Rollback(data, env, agg, unagg) ==
    IF data.kind = "notlist" THEN AttResult(<<>>, <<>>, "unmarshal", AttAcc(agg, unagg))
    ELSE IF Len(data.items) = 0 THEN AttResult(<<>>, <<>>, "nodata", AttAcc(agg, unagg))
    ELSE LET a == attPhaseAElectra(data.items, 1, AttAcc(agg, unagg))
             b == attPhaseBElectra(a.validAttestations, 1, env, a)
         IN IF b.fatal
            THEN AttResult(<<>>, <<>>, "committeeIndex", [b EXCEPT !.agg = agg, !.unagg = unagg])
            ELSE AttResult(b.attFailures, b.failedBroadcasts, "", b)

handleAttestationsElectra(data, env, agg, unagg) ==
    IF data.kind = "notlist" THEN AttResult(<<>>, <<>>, "unmarshal", AttAcc(agg, unagg))
    ELSE IF Len(data.items) = 0 THEN AttResult(<<>>, <<>>, "nodata", AttAcc(agg, unagg))
    ELSE LET a == attPhaseAElectra(data.items, 1, AttAcc(agg, unagg))
             b == attPhaseBElectra(a.validAttestations, 1, env, a)
         IN IF b.fatal
            THEN AttResult(<<>>, <<>>, "committeeIndex", b)
            ELSE AttResult(b.attFailures, b.failedBroadcasts, "", b)

-----------------------------------------------------------------------------
(* SubmitAttestations, SubmitAttestationsV2 *)

\* a faulty variant of AttResponse: the validation failures are answered
\* before the failed broadcasts
AttResponse_FailuresFirst(r) ==
    IF r.err # "" THEN HandleError(r.err, StatusBadRequest)
    ELSE IF Len(r.attFailures) > 0 THEN WriteFailures(r.attFailures)
    ELSE IF Len(r.failedBroadcasts) > 0
    THEN [status |-> StatusInternalServerError, kind |-> "broadcast",
          failures |-> <<>>, indices |-> r.failedBroadcasts,
          data |-> <<>>, version |-> "", extra |-> <<>>, header |-> ""]
    ELSE EmptyOK

\* the tail both handlers share: the response chosen from the handler's result
AttResponse(r) ==
    IF r.err # "" THEN HandleError(r.err, StatusBadRequest)
    ELSE IF Len(r.failedBroadcasts) > 0
    THEN [status |-> StatusInternalServerError, kind |-> "broadcast",
          failures |-> <<>>, indices |-> r.failedBroadcasts,
          data |-> <<>>, version |-> "", extra |-> <<>>, header |-> ""]
    ELSE IF Len(r.attFailures) > 0 THEN WriteFailures(r.attFailures)
    ELSE EmptyOK

\* the environment of a request: one outcome per Phase-B item
AttEnvs == [1..MaxBatch -> AttOutcomes]

Served(e, req, resp, lg) ==
    /\ pc' = "done"
    /\ ep' = e
    /\ request' = req
    /\ response' = resp
    /\ log' = lg

SubmitAttestations(req, env) ==
    /\ pc = "idle"
    /\ IF req.body.kind = "absent" THEN
            /\ Served("SubmitAttestations", req, HandleError("nodata", StatusBadRequest), <<>>)
            /\ UNCHANGED <<aggPool, unaggPool>>
       ELSE IF req.body.kind = "garbage" THEN
            /\ Served("SubmitAttestations", req, HandleError("decode", StatusBadRequest), <<>>)
            /\ UNCHANGED <<aggPool, unaggPool>>
       ELSE LET r == handleAttestations(req.body, env, aggPool, unaggPool) IN
            /\ Served("SubmitAttestations", req, AttResponse(r), r.log)
            /\ aggPool' = r.agg
            /\ unaggPool' = r.unagg
    /\ UNCHANGED <<blsPool, head, loops, now, exitsPool, slashingsPool, features>>

SubmitAttestationsV2(req, env) ==
    /\ pc = "idle"
    /\ IF req.hdr = "" THEN
            /\ Served("SubmitAttestationsV2", req, HandleError("versionRequired", StatusBadRequest), <<>>)
            /\ UNCHANGED <<aggPool, unaggPool>>
       ELSE IF FromString(req.hdr).err THEN
            /\ Served("SubmitAttestationsV2", req, HandleError("invalidVersion", StatusBadRequest), <<>>)
            /\ UNCHANGED <<aggPool, unaggPool>>
       ELSE IF req.body.kind = "absent" THEN
            /\ Served("SubmitAttestationsV2", req, HandleError("nodata", StatusBadRequest), <<>>)
            /\ UNCHANGED <<aggPool, unaggPool>>
       ELSE IF req.body.kind = "garbage" THEN
            /\ Served("SubmitAttestationsV2", req, HandleError("decode", StatusBadRequest), <<>>)
            /\ UNCHANGED <<aggPool, unaggPool>>
       ELSE LET r == IF FromString(req.hdr).v >= Electra
                     THEN handleAttestationsElectra(req.body, env, aggPool, unaggPool)
                     ELSE handleAttestations(req.body, env, aggPool, unaggPool)
            IN
            /\ Served("SubmitAttestationsV2", req, AttResponse(r), r.log)
            /\ aggPool' = r.agg
            /\ unaggPool' = r.unagg
    /\ UNCHANGED <<blsPool, head, loops, now, exitsPool, slashingsPool, features>>

-----------------------------------------------------------------------------
(* SubmitSyncCommitteeSignatures *)

\* a submitted sync-committee message: position in the batch, and whether
\* ToConsensus accepts it
SyncItem(p, conv) == [pos |-> p, conv |-> conv]

SyncBodiesOfLen(n) == [1..n -> BOOLEAN]

SyncBody(f) == [p \in DOMAIN f |-> SyncItem(p, f[p])]

SyncBodies ==
    {Body(k, <<>>) : k \in {"absent", "garbage", "notlist"}}
        \cup {Body("list", SyncBody(f)) : f \in UNION {SyncBodiesOfLen(n) : n \in 0..MaxBatch}}

\* answers of CoreService.SubmitSyncMessage: nil, or an error with a reason
SyncOutcomes == {"ok", "badRequest", "internal"}

\* core.ErrorReasonToHTTP
ErrorReasonToHTTP(reason) ==
    IF reason = "badRequest" THEN StatusBadRequest ELSE StatusInternalServerError

SyncEnvs == [1..MaxBatch -> SyncOutcomes]

SyncAcc == [validMessages |-> <<>>, msgFailures |-> <<>>, log |-> <<>>, resp |-> NoResponse]

\* body of the conversion loop
syncConvertStep(m, i, acc) ==
    IF ~m.conv THEN
        [acc EXCEPT !.msgFailures = Append(@, [Index |-> i - 1, Message |-> "convert"]),
                    !.log = Append(@, Ev("validate", m.pos, FALSE))]
    ELSE
        [acc EXCEPT !.validMessages = Append(@, m),
                    !.log = Append(@, Ev("validate", m.pos, TRUE))]

RECURSIVE syncConvert(_, _, _)
syncConvert(src, i, acc) ==
    IF i > Len(src) THEN acc
    ELSE syncConvert(src, i + 1, syncConvertStep(src[i], i, acc))

\* body of the submission loop: the first core error is the response
syncSubmitStep(m, outcome, acc) ==
    IF outcome # "ok" THEN
        [acc EXCEPT !.log = Append(@, Ev("submitSync", m.pos, FALSE)),
                    !.resp = HandleError("submit", ErrorReasonToHTTP(outcome))]
    ELSE
        [acc EXCEPT !.log = Append(@, Ev("submitSync", m.pos, TRUE))]

\* a faulty variant of syncSubmit: the loop goes on after a core error
RECURSIVE syncSubmit_ContinueAfterError(_, _, _, _)
syncSubmit_ContinueAfterError(valid, i, env, acc) ==
    IF i > Len(valid) THEN acc
    ELSE syncSubmit_ContinueAfterError(valid, i + 1, env, syncSubmitStep(valid[i], env[i], acc))

RECURSIVE syncSubmit(_, _, _, _)
syncSubmit(valid, i, env, acc) ==
    IF i > Len(valid) \/ acc.resp # NoResponse THEN acc
    ELSE syncSubmit(valid, i + 1, env, syncSubmitStep(valid[i], env[i], acc))

\* the handler after the body was decoded to a non-empty list
syncHandle(data, env) ==
    LET a == syncConvert(data, 1, SyncAcc)
        b == syncSubmit(a.validMessages, 1, env, a)
    IN IF b.resp # NoResponse THEN b
       ELSE IF Len(b.msgFailures) > 0 THEN [b EXCEPT !.resp = WriteFailures(b.msgFailures)]
       ELSE [b EXCEPT !.resp = EmptyOK]

SubmitSyncCommitteeSignatures(req, env) ==
    /\ pc = "idle"
    /\ IF req.body.kind = "absent" THEN
            Served("SubmitSyncCommitteeSignatures", req, HandleError("nodata", StatusBadRequest), <<>>)
       ELSE IF req.body.kind = "garbage" THEN
            Served("SubmitSyncCommitteeSignatures", req, HandleError("decode", StatusBadRequest), <<>>)
       ELSE IF req.body.kind = "notlist" THEN
            Served("SubmitSyncCommitteeSignatures", req, HandleError("decode", StatusBadRequest), <<>>)
       ELSE IF Len(req.body.items) = 0 THEN
            Served("SubmitSyncCommitteeSignatures", req, HandleError("nodata", StatusBadRequest), <<>>)
       ELSE LET r == syncHandle(req.body.items, env) IN
            Served("SubmitSyncCommitteeSignatures", req, r.resp, r.log)
    /\ UNCHANGED <<aggPool, unaggPool, blsPool, head, loops, now, exitsPool, slashingsPool, features>>

-----------------------------------------------------------------------------
(* BLS-to-execution changes: wire items, head state, validation *)

broadcastBLSChangesRateLimit == 128

\* a submitted change: id is its position in the batch (its identity), conv
\* whether ToConsensus accepts it, sig whether its signature verifies
BLSItem(p, conv, sig) == [id |-> p, conv |-> conv, sig |-> sig]

BLSKinds(p) == {BLSItem(p, FALSE, TRUE), BLSItem(p, TRUE, FALSE), BLSItem(p, TRUE, TRUE)}

BLSBodiesOfLen(n) == {b \in [1..n -> UNION {BLSKinds(p) : p \in 1..n}] : \A p \in 1..n : b[p].id = p}

\* a batch that takes three calls of broadcastBLSBatch to release
BigBLSBatch == 2 * broadcastBLSChangesRateLimit + 1

BLSBigBody == [p \in 1..BigBLSBatch |-> BLSItem(p, TRUE, TRUE)]

BLSBodies ==
    {Body(k, <<>>) : k \in {"absent", "garbage", "notlist"}}
        \cup {Body("list", b) : b \in UNION {BLSBodiesOfLen(n) : n \in 0..MaxBLSBatch}}

\* structs.SignedBLSToExecutionChange.ToConsensus
BLSToConsensus(c) == [id |-> c.id, sig |-> c.sig]

\* the changes whose validity against the head state varies while the model
\* runs (they get included in a block, or not): the first change of a
\* batch and the first change of its second release
VolatileIds == {1, broadcastBLSChangesRateLimit + 1}

\* the head states ChainInfoFetcher can serve: the fork of the head, and the
\* changes that are not valid against it
HeadStates == [version : {Bellatrix, Capella}, invalid : SUBSET VolatileIds, slot : {0}]

\* blocks.ValidateBLSToExecutionChange(st, sbls): an error iff the change
\* is not valid against st; the fork of st is not looked at
ValidateBLSToExecutionChange(st, sbls) == sbls.id \notin st.invalid

\* blocks.VerifyBLSChangeSignature(st, sbls)
VerifyBLSChangeSignature(st, sbls) == sbls.sig

\* BLSChangesPool.InsertBLSToExecChange
InsertBLSToExecChange(pool, sbls) ==
    IF \E k \in 1..Len(pool) : pool[k] = sbls THEN pool ELSE Append(pool, sbls)

-----------------------------------------------------------------------------
(* SubmitBLSToExecutionChanges *)

BLSAcc(pool) == [failures |-> <<>>, toBroadcast |-> <<>>, log |-> <<>>, pool |-> pool]

\* a faulty variant of blsStep: a validated change is queued for broadcast
\* whatever the fork of the head state
blsStep_NoForkGate(c, i, st, acc) ==
    IF ~c.conv THEN
        [acc EXCEPT !.failures = Append(@, [Index |-> i - 1, Message |-> "decode"]),
                    !.log = Append(@, Ev("validate", c.id, FALSE))]
    ELSE IF ~ValidateBLSToExecutionChange(st, BLSToConsensus(c)) THEN
        [acc EXCEPT !.failures = Append(@, [Index |-> i - 1, Message |-> "validate"]),
                    !.log = Append(@, Ev("validate", c.id, FALSE))]
    ELSE IF ~VerifyBLSChangeSignature(st, BLSToConsensus(c)) THEN
        [acc EXCEPT !.failures = Append(@, [Index |-> i - 1, Message |-> "signature"]),
                    !.log = Append(@, Ev("validate", c.id, FALSE))]
    ELSE
        [acc EXCEPT !.log = Append(Append(Append(@, Ev("validate", c.id, TRUE)),
                                          Ev("notifyBLS", c.id, TRUE)),
                                   Ev("insertBLS", c.id, TRUE)),
                    !.pool = InsertBLSToExecChange(@, BLSToConsensus(c)),
                    !.toBroadcast = Append(@, BLSToConsensus(c))]

\* a faulty variant of blsStep: a change whose signature does not verify is
\* reported as a failure but announced and kept in the pool all the same
blsStep_InsertUnverified(c, i, st, acc) ==
    IF ~c.conv THEN
        [acc EXCEPT !.failures = Append(@, [Index |-> i - 1, Message |-> "decode"]),
                    !.log = Append(@, Ev("validate", c.id, FALSE))]
    ELSE IF ~ValidateBLSToExecutionChange(st, BLSToConsensus(c)) THEN
        [acc EXCEPT !.failures = Append(@, [Index |-> i - 1, Message |-> "validate"]),
                    !.log = Append(@, Ev("validate", c.id, FALSE))]
    ELSE IF ~VerifyBLSChangeSignature(st, BLSToConsensus(c)) THEN
        [acc EXCEPT !.failures = Append(@, [Index |-> i - 1, Message |-> "signature"]),
                    !.log = Append(Append(Append(@, Ev("validate", c.id, FALSE)),
                                          Ev("notifyBLS", c.id, TRUE)),
                                   Ev("insertBLS", c.id, TRUE)),
                    !.pool = InsertBLSToExecChange(@, BLSToConsensus(c))]
    ELSE
        [acc EXCEPT !.log = Append(Append(Append(@, Ev("validate", c.id, TRUE)),
                                          Ev("notifyBLS", c.id, TRUE)),
                                   Ev("insertBLS", c.id, TRUE)),
                    !.pool = InsertBLSToExecChange(@, BLSToConsensus(c)),
                    !.toBroadcast = IF st.version >= Capella
                                    THEN Append(@, BLSToConsensus(c)) ELSE @]

\* body of the loop over the submitted changes, for change c at batch index
\* i, st being the head state read when the request started
blsStep(c, i, st, acc) ==
    IF ~c.conv THEN
        [acc EXCEPT !.failures = Append(@, [Index |-> i - 1, Message |-> "decode"]),
                    !.log = Append(@, Ev("validate", c.id, FALSE))]
    ELSE IF ~ValidateBLSToExecutionChange(st, BLSToConsensus(c)) THEN
        [acc EXCEPT !.failures = Append(@, [Index |-> i - 1, Message |-> "validate"]),
                    !.log = Append(@, Ev("validate", c.id, FALSE))]
    ELSE IF ~VerifyBLSChangeSignature(st, BLSToConsensus(c)) THEN
        [acc EXCEPT !.failures = Append(@, [Index |-> i - 1, Message |-> "signature"]),
                    !.log = Append(@, Ev("validate", c.id, FALSE))]
    ELSE
        [acc EXCEPT !.log = Append(Append(Append(@, Ev("validate", c.id, TRUE)),
                                          Ev("notifyBLS", c.id, TRUE)),
                                   Ev("insertBLS", c.id, TRUE)),
                    !.pool = InsertBLSToExecChange(@, BLSToConsensus(c)),
                    !.toBroadcast = IF st.version >= Capella
                                    THEN Append(@, BLSToConsensus(c)) ELSE @]

\* the loop over the submitted changes src[lo..hi], in batch order (the
\* range is split in two so that long batches do not nest deeply)
RECURSIVE blsLoop(_, _, _, _, _)
blsLoop(src, lo, hi, st, acc) ==
    IF lo > hi THEN acc
    ELSE IF lo = hi THEN blsStep(src[lo], lo, st, acc)
    ELSE LET mid == (lo + hi) \div 2
             left == blsLoop(src, lo, mid, st, acc)
         IN IF Len(left.log) < 0 THEN left
            ELSE blsLoop(src, mid + 1, hi, st, left)

\* the identities of a sequence of changes
Ids(seq) == [k \in 1..Len(seq) |-> seq[k].id]

\* what a loop remembers of a call of broadcastBLSBatch: whether the head
\* state was served and which, the changes taken off the queue, and those
\* handed to Broadcaster.Broadcast
NoCycle == [stOK |-> FALSE, st |-> [version |-> Phase0, invalid |-> {}, slot |-> 0], taken |-> <<>>, sent |-> <<>>]

\* the goroutine started by `go s.broadcastBLSChanges(ctx, toBroadcast)`:
\* st "start" before its first call of broadcastBLSBatch, "wait" in the
\* select of the ticker loop, "exit" once it returned; changes is the
\* slice it owns.  The rest is its history: submitted the slice it was
\* started with, fork the fork of the head state its request read, cycles
\* the time and the number of broadcasts of each call of broadcastBLSBatch
\* and whether it was served the head state,
\* last the latest call, attempts the changes handed to the broadcaster so
\* far, failed those for which the broadcaster answered an error.
NewLoop(toBroadcast, fork) ==
    [st |-> "start", changes |-> toBroadcast, submitted |-> Ids(toBroadcast), fork |-> fork,
     ctxDone |-> FALSE, created |-> 0, nextFire |-> 0, pending |-> FALSE,
     cycles |-> <<>>, last |-> NoCycle, attempts |-> <<>>, failed |-> {}]

\* the response written after the goroutine was started
BLSResponse(failures) ==
    IF Len(failures) > 0 THEN WriteFailures(failures) ELSE EmptyOK

\* stOK: whether HeadStateReadOnly answers
SubmitBLSToExecutionChanges(req, stOK) ==
    /\ pc = "idle"
    /\ IF ~stOK THEN
            /\ Served("SubmitBLSToExecutionChanges", req, HandleError("headState", StatusInternalServerError), <<>>)
            /\ UNCHANGED <<blsPool, loops>>
       ELSE IF req.body.kind = "absent" THEN
            /\ Served("SubmitBLSToExecutionChanges", req, HandleError("nodata", StatusBadRequest), <<>>)
            /\ UNCHANGED <<blsPool, loops>>
       ELSE IF req.body.kind = "garbage" THEN
            /\ Served("SubmitBLSToExecutionChanges", req, HandleError("decode", StatusBadRequest), <<>>)
            /\ UNCHANGED <<blsPool, loops>>
       ELSE IF req.body.kind = "notlist" THEN
            /\ Served("SubmitBLSToExecutionChanges", req, HandleError("decode", StatusBadRequest), <<>>)
            /\ UNCHANGED <<blsPool, loops>>
       ELSE IF Len(req.body.items) = 0 THEN
            /\ Served("SubmitBLSToExecutionChanges", req, HandleError("nodata", StatusBadRequest), <<>>)
            /\ UNCHANGED <<blsPool, loops>>
       ELSE LET r == blsLoop(req.body.items, 1, Len(req.body.items), head, BLSAcc(blsPool)) IN
            /\ Served("SubmitBLSToExecutionChanges", req, BLSResponse(r.failures),
                      Append(r.log, Ev("spawn", 0, TRUE)))
            /\ blsPool' = r.pool
            /\ loops' = Append(loops, NewLoop(r.toBroadcast, head.version))
    /\ UNCHANGED <<aggPool, unaggPool, head, now, exitsPool, slashingsPool, features>>

-----------------------------------------------------------------------------
(* broadcastBLSBatch, broadcastBLSChanges *)

\* period of the ticker of broadcastBLSChanges, in milliseconds
TickerPeriod == 500

\* the clock advances by half a period at a time, MaxClockSteps times at most
TimeStep == TickerPeriod \div 2
MaxClockSteps == 4

Min(a, b) == IF a < b THEN a ELSE b

\* a faulty variant of blsBatchBroadcast: a change is broadcast without
\* being validated again
blsBatchBroadcast_NoRevalidation(st, ch) == TRUE

\* body of the loop of broadcastBLSBatch over (*ptr)[:limit]: whether ch is
\* handed to the broadcaster, st being the head state fetched (a change
\* that is not valid against st is skipped)
blsBatchBroadcast(st, ch) == ValidateBLSToExecutionChange(st, ch)

\* a faulty variant of blsBatchRest: one change more than handled is dropped
blsBatchRest_DropOneMore(changes, limit) == SubSeq(changes, limit + 2, Len(changes))

\* the slice left to the loop after a call that handled its first limit changes
blsBatchRest(changes, limit) == SubSeq(changes, limit + 1, Len(changes))

\* a faulty variant of broadcastBLSBatch: a change for which the
\* broadcaster answered an error stays on the slice for the next call
broadcastBLSBatch_RetryFailed(l, st, stOK, fails, t, pool) ==
    LET limit == Min(broadcastBLSChangesRateLimit, Len(l.changes))
        batch == SubSeq(l.changes, 1, limit)
        sent == SelectSeq(batch, LAMBDA ch : blsBatchBroadcast(st, ch))
        ids == Ids(sent)
    IN IF ~stOK THEN
           [loop |-> [l EXCEPT !.cycles = Append(@, [time |-> t, n |-> 0, served |-> FALSE]),
                               !.last = [stOK |-> FALSE, st |-> st, taken |-> <<>>, sent |-> <<>>]],
            pool |-> pool]
       ELSE
           [loop |-> [l EXCEPT !.changes = SelectSeq(sent, LAMBDA ch : ch.id \in fails)
                                               \o blsBatchRest(@, limit),
                               !.cycles = Append(@, [time |-> t, n |-> Len(sent), served |-> TRUE]),
                               !.last = [stOK |-> TRUE, st |-> st, taken |-> Ids(batch), sent |-> ids],
                               !.attempts = @ \o ids,
                               !.failed = @ \cup ({ids[k] : k \in 1..Len(ids)} \cap fails)],
            pool |-> pool]

\* broadcastBLSBatch on the loop l at time t: stOK whether HeadStateReadOnly
\* answers, st the head state it answers with, fails the changes for which
\* Broadcaster.Broadcast answers an error (only logged), pool the
\* BLS-changes pool
broadcastBLSBatch(l, st, stOK, fails, t, pool) ==
    LET limit == Min(broadcastBLSChangesRateLimit, Len(l.changes))
        batch == SubSeq(l.changes, 1, limit)
        sent == SelectSeq(batch, LAMBDA ch : blsBatchBroadcast(st, ch))
        ids == Ids(sent)
    IN IF ~stOK THEN
           [loop |-> [l EXCEPT !.cycles = Append(@, [time |-> t, n |-> 0, served |-> FALSE]),
                               !.last = [stOK |-> FALSE, st |-> st, taken |-> <<>>, sent |-> <<>>]],
            pool |-> pool]
       ELSE
           [loop |-> [l EXCEPT !.changes = blsBatchRest(@, limit),
                               !.cycles = Append(@, [time |-> t, n |-> Len(sent), served |-> TRUE]),
                               !.last = [stOK |-> TRUE, st |-> st, taken |-> Ids(batch), sent |-> ids],
                               !.attempts = @ \o ids,
                               !.failed = @ \cup ({ids[k] : k \in 1..Len(ids)} \cap fails)],
            pool |-> pool]

\* the environment of one call of broadcastBLSBatch
BroadcastFailSets == SUBSET VolatileIds

\* broadcastBLSChanges up to its first select: the first batch at once,
\* then return if nothing is left, else time.NewTicker
LoopFirst(i, stOK, fails) ==
    /\ i \in 1..Len(loops)
    /\ loops[i].st = "start"
    /\ LET r == broadcastBLSBatch(loops[i], head, stOK, fails, now, blsPool)
           l == r.loop
       IN /\ loops' = [loops EXCEPT ![i] =
                IF Len(l.changes) = 0
                THEN [l EXCEPT !.st = "exit"]
                ELSE [l EXCEPT !.st = "wait", !.created = now,
                               !.nextFire = now + TickerPeriod, !.pending = FALSE]]
          /\ blsPool' = r.pool
    /\ UNCHANGED <<pc, ep, request, response, log, aggPool, unaggPool, head, now, exitsPool, slashingsPool, features>>

\* case <-ticker.C: a tick is in the channel; the next batch, then return
\* if nothing is left
LoopTick(i, stOK, fails) ==
    /\ i \in 1..Len(loops)
    /\ loops[i].st = "wait"
    /\ loops[i].pending
    /\ LET r == broadcastBLSBatch([loops[i] EXCEPT !.pending = FALSE], head, stOK, fails, now, blsPool)
           l == r.loop
       IN /\ loops' = [loops EXCEPT ![i] =
                IF Len(l.changes) = 0 THEN [l EXCEPT !.st = "exit"] ELSE l]
          /\ blsPool' = r.pool
    /\ UNCHANGED <<pc, ep, request, response, log, aggPool, unaggPool, head, now, exitsPool, slashingsPool, features>>

\* a faulty variant of LoopCtxDone: the loop returns from its select though
\* its context is not canceled
LoopCtxDone_WithoutCancel(i) ==
    /\ i \in 1..Len(loops)
    /\ loops[i].st = "wait"
    /\ loops' = [loops EXCEPT ![i].st = "exit"]
    /\ UNCHANGED <<pc, ep, request, response, log, aggPool, unaggPool, blsPool, head, now, exitsPool, slashingsPool, features>>

\* case <-ctx.Done()
LoopCtxDone(i) ==
    /\ i \in 1..Len(loops)
    /\ loops[i].st = "wait"
    /\ loops[i].ctxDone
    /\ loops' = [loops EXCEPT ![i].st = "exit"]
    /\ UNCHANGED <<pc, ep, request, response, log, aggPool, unaggPool, blsPool, head, now, exitsPool, slashingsPool, features>>

\* the context handed to the goroutine is canceled.  It is the context of
\* the request (ctx of trace.StartSpan(r.Context(), ...), passed on by the
\* go statement): it ends when the handler has returned or the client has
\* gone.  The goroutine looks at it in its select only.
CancelCtx(i) ==
    /\ i \in 1..Len(loops)
    /\ loops[i].st = "wait"
    /\ ~loops[i].ctxDone
    /\ loops' = [loops EXCEPT ![i].ctxDone = TRUE]
    /\ UNCHANGED <<pc, ep, request, response, log, aggPool, unaggPool, blsPool, head, now, exitsPool, slashingsPool, features>>

\* a faulty variant of TickerAt: a tick is sent whenever the clock moves
TickerAt_EveryStep(l, t) ==
    IF l.st = "wait" THEN [l EXCEPT !.pending = TRUE] ELSE l

\* the ticker of a waiting loop at time t: a tick is sent when its period
\* has elapsed; the channel holds one tick, a tick sent to a full channel
\* is dropped
TickerAt(l, t) ==
    IF l.st = "wait" /\ t >= l.nextFire
    THEN [l EXCEPT !.pending = TRUE, !.nextFire = @ + TickerPeriod]
    ELSE l

\* time passes (the clock is read by the tickers only: it is advanced
\* while one of them runs)
Tick ==
    /\ \E i \in 1..Len(loops) : loops[i].st = "wait"
    /\ now + TimeStep <= MaxClockSteps * TimeStep
    /\ now' = now + TimeStep
    /\ loops' = [i \in 1..Len(loops) |-> TickerAt(loops[i], now + TimeStep)]
    /\ UNCHANGED <<pc, ep, request, response, log, aggPool, unaggPool, blsPool, head, exitsPool, slashingsPool, features>>

\* the chain moves: the head state changes (it is read by the requests and
\* by the loops: it is moved while one of them can still read it)
HeadChange(h) ==
    /\ pc = "idle" \/ \E i \in 1..Len(loops) : loops[i].st # "exit"
    /\ h \in HeadStates
    /\ h # head
    /\ head' = h
    /\ UNCHANGED <<pc, ep, request, response, log, aggPool, unaggPool, blsPool, loops, now, exitsPool, slashingsPool, features>>

-----------------------------------------------------------------------------
(* Specifications *)

Init ==
    /\ pc = "idle"
    /\ ep = "none"
    /\ request = [hdr |-> "", body |-> Body("absent", <<>>)]
    /\ response = NoResponse
    /\ log = <<>>
    /\ aggPool = <<>>
    /\ unaggPool = <<>>
    /\ blsPool = <<>>
    /\ head \in HeadStates
    /\ loops = <<>>
    /\ now = 0
    /\ exitsPool = <<>>
    /\ slashingsPool = <<>>
    /\ features = [DisableBroadcastSlashings |-> FALSE]

\* the requests explored: the version header is drawn from Headers for the
\* endpoint that reads it, and absent for the others; one request is served
\* in a behaviour
Requests(headers, bodies) == [hdr : headers, body : bodies]

AttRequest == pc = "idle" /\ \E req \in Requests({""}, AttBodies), env \in AttEnvs : SubmitAttestations(req, env)

AttRequestV2 == pc = "idle" /\ \E req \in Requests(Headers, AttBodies), env \in AttEnvs : SubmitAttestationsV2(req, env)

SyncRequest == pc = "idle" /\ \E req \in Requests({""}, SyncBodies), env \in SyncEnvs : SubmitSyncCommitteeSignatures(req, env)

BLSRequest == pc = "idle" /\ \E req \in Requests({""}, BLSBodies), stOK \in BOOLEAN : SubmitBLSToExecutionChanges(req, stOK)

\* a request with the long batch of valid changes
BLSRequestBig == pc = "idle" /\ \E stOK \in BOOLEAN :
    SubmitBLSToExecutionChanges([hdr |-> "", body |-> Body("list", BLSBigBody)], stOK)

\* one request to one of the batch-submission endpoints
Next ==
    \/ AttRequest
    \/ AttRequestV2
    \/ SyncRequest
    \/ BLSRequest

Spec == Init /\ [][Next]_vars

\* the answers of the collaborators to one call of broadcastBLSBatch: the
\* head state is not served (and no broadcast is made), or it is and the
\* broadcaster fails for the changes of fails
BatchEnvs == {[stOK |-> FALSE, fails |-> {}]} \cup [stOK : {TRUE}, fails : BroadcastFailSets]

\* a call of broadcastBLSBatch by a goroutine
LoopBatch ==
    \/ \E i \in 1..Len(loops), e \in BatchEnvs : LoopFirst(i, e.stOK, e.fails)
    \/ \E i \in 1..Len(loops), e \in BatchEnvs : LoopTick(i, e.stOK, e.fails)

\* what runs beside the requests: the goroutines, the clock and the chain
Background ==
    \/ LoopBatch
    \/ \E i \in 1..Len(loops) : LoopCtxDone(i)
    \/ \E i \in 1..Len(loops) : CancelCtx(i)
    \/ Tick
    \/ \E h \in HeadStates : HeadChange(h)

\* a request to the BLS endpoint with a short batch of any content, and the
\* goroutine it starts
NextBLS == BLSRequest \/ Background

SpecBLS == Init /\ [][NextBLS]_vars

\* a request to the BLS endpoint with a batch longer than two releases, and
\* the goroutine it starts, its context not being canceled
NextBLSBig ==
    \/ BLSRequestBig
    \/ LoopBatch
    \/ Tick
    \/ \E h \in HeadStates : HeadChange(h)

SpecBLSBig == Init /\ [][NextBLSBig]_vars

-----------------------------------------------------------------------------
(* The goroutine over unbounded time *)

\* a loop without the times and sizes of its past cycles, which grow with
\* every cycle
Forget(l) == [l EXCEPT !.cycles = <<>>]

\* LoopFirst, the clock not being read
LoopFirstLive(i, stOK, fails) ==
    /\ i \in 1..Len(loops)
    /\ loops[i].st = "start"
    /\ LET r == broadcastBLSBatch(loops[i], head, stOK, fails, now, blsPool)
           l == Forget(r.loop)
       IN /\ loops' = [loops EXCEPT ![i] =
                IF Len(l.changes) = 0
                THEN [l EXCEPT !.st = "exit"]
                ELSE [l EXCEPT !.st = "wait", !.pending = FALSE]]
          /\ blsPool' = r.pool
    /\ UNCHANGED <<pc, ep, request, response, log, aggPool, unaggPool, head, now, exitsPool, slashingsPool, features>>

\* LoopTick, the clock not being read
LoopTickLive(i, stOK, fails) ==
    /\ i \in 1..Len(loops)
    /\ loops[i].st = "wait"
    /\ loops[i].pending
    /\ LET r == broadcastBLSBatch([loops[i] EXCEPT !.pending = FALSE], head, stOK, fails, now, blsPool)
           l == Forget(r.loop)
       IN /\ loops' = [loops EXCEPT ![i] =
                IF Len(l.changes) = 0 THEN [l EXCEPT !.st = "exit"] ELSE l]
          /\ blsPool' = r.pool
    /\ UNCHANGED <<pc, ep, request, response, log, aggPool, unaggPool, head, now, exitsPool, slashingsPool, features>>

\* the ticker of a waiting loop sends a tick (the channel holds one)
TickerFires(i) ==
    /\ i \in 1..Len(loops)
    /\ loops[i].st = "wait"
    /\ ~loops[i].pending
    /\ loops' = [loops EXCEPT ![i].pending = TRUE]
    /\ UNCHANGED <<pc, ep, request, response, log, aggPool, unaggPool, blsPool, head, now, exitsPool, slashingsPool, features>>

\* a request with a batch of valid changes that takes two cycles to release
BLSRequestTwoCycles == pc = "idle" /\ \E stOK \in BOOLEAN :
    SubmitBLSToExecutionChanges(
        [hdr |-> "",
         body |-> Body("list", SubSeq(BLSBigBody, 1, broadcastBLSChangesRateLimit + 1))],
        stOK)

LiveBatch ==
    \/ \E i \in 1..Len(loops), e \in BatchEnvs : LoopFirstLive(i, e.stOK, e.fails)
    \/ \E i \in 1..Len(loops), e \in BatchEnvs : LoopTickLive(i, e.stOK, e.fails)

LiveCtxDone == \E i \in 1..Len(loops) : LoopCtxDone(i)

LiveTicker == \E i \in 1..Len(loops) : TickerFires(i)

NextBLSLive ==
    \/ BLSRequest
    \/ BLSRequestTwoCycles
    \/ LiveBatch
    \/ LiveCtxDone
    \/ LiveTicker
    \/ \E i \in 1..Len(loops) : CancelCtx(i)
    \/ \E h \in HeadStates : HeadChange(h)

\* the goroutine is scheduled, its ticker fires, its select takes a case
\* that stays ready; nothing is assumed of the head state, the broadcaster
\* or the cancellation of the context
SpecBLSLive ==
    /\ Init
    /\ [][NextBLSLive]_vars
    /\ WF_vars(LiveBatch)
    /\ WF_vars(LiveCtxDone)
    /\ WF_vars(LiveTicker)

-----------------------------------------------------------------------------
(* Concurrent submissions of BLS changes *)

\* the server serves more than one request: after a submission of BLS
\* changes was answered another comes in, while the goroutines of the
\* earlier ones may still run (each handler invocation has its own
\* toBroadcast, each goroutine its own changes)
MaxSubmissions == 2

NextSubmission ==
    /\ pc = "done"
    /\ ep = "SubmitBLSToExecutionChanges"
    /\ Len(loops) < MaxSubmissions
    /\ pc' = "idle"
    /\ UNCHANGED <<ep, request, response, log, aggPool, unaggPool, blsPool, head, loops, now,
                   exitsPool, slashingsPool, features>>

\* a request with a short batch of changes that convert and are signed
BLSRequestSigned == pc = "idle" /\ \E n \in 1..MaxBLSBatch :
    SubmitBLSToExecutionChanges(
        [hdr |-> "", body |-> Body("list", [p \in 1..n |-> BLSItem(p, TRUE, TRUE)])], TRUE)

\* the first submission is of the batch that takes two cycles to release
BLSRequestFirstLong == loops = <<>> /\ BLSRequestTwoCycles

\* submissions of BLS changes one after the other, and their goroutines
\* side by side, the clock not being read
NextBLSConc ==
    \/ BLSRequestSigned
    \/ BLSRequestFirstLong
    \/ NextSubmission
    \/ LiveBatch
    \/ LiveCtxDone
    \/ LiveTicker
    \/ \E i \in 1..Len(loops) : CancelCtx(i)

SpecBLSConc == Init /\ [][NextBLSConc]_vars

-----------------------------------------------------------------------------
(* Single-operation submissions: voluntary exits and slashings *)

MaxSlot == 1           \* highest slot of a head state and of a submitted operation

Slots == 0..MaxSlot

\* A submitted operation (voluntary exit, attester slashing or proposer
\* slashing): conv whether ToConsensus accepts it, slot the slot its
\* verification needs the state at (exit: the first slot of its epoch;
\* attester slashing: the slot of its first attestation; proposer slashing:
\* the slot of its first header), validAt the slots of the states against
\* which it verifies.
Op(conv, slot, validAt) == [conv |-> conv, slot |-> slot, validAt |-> validAt]

Ops == {Op(c, s, v) : c \in BOOLEAN, s \in Slots, v \in SUBSET Slots}

\* request bodies of a single operation: absent (io.EOF), not JSON of the
\* shape expected, or one operation
OpBodies == {Body(k, <<>>) : k \in {"absent", "garbage"}} \cup {Body("object", <<o>>) : o \in Ops}

\* ToConsensus of an exit or a slashing; variant is the struct converted
\* ("phase0" or "electra" for attester slashings)
OpToConsensus(o, kind, variant) ==
    [kind |-> kind, variant |-> variant, slot |-> o.slot, validAt |-> o.validAt]

\* the head states served to these endpoints: the slot of the head varies,
\* and whether the first BLS change of a batch is valid against it
OpHeadStates == [version : {Deneb}, invalid : SUBSET {1}, slot : Slots]

\* transition.ProcessSlotsIfPossible(ctx, st, target): the state advanced to
\* target when target is ahead of it, st itself otherwise
ProcessSlotsIfPossible(st, target) ==
    IF target > st.slot THEN [st EXCEPT !.slot = target] ELSE st

\* blocks.VerifyExitAndSignature, blocks.VerifyAttesterSlashing,
\* blocks.VerifyProposerSlashing: the operation verifies against st
VerifyOp(st, o) == st.slot \in o.validAt

\* the answers of the collaborators to one request: HeadState,
\* slots.EpochStart, ProcessSlotsIfPossible, ValidatorAtIndexReadOnly
\* ("ok", "outOfBounds" or another error), the pool insert, the broadcast
OpEnvs ==
    [stOK : BOOLEAN, epochOK : BOOLEAN, psOK : BOOLEAN,
     val : {"ok", "outOfBounds", "err"}, insOK : BOOLEAN, bcOK : BOOLEAN]

\* result of a handler of one operation: the response, the calls made, the pool
OpResult(resp, lg, pool) == [resp |-> resp, log |-> lg, pool |-> pool]

\* a second httputil.HandleError on a response already written: the status
\* line stays, the body of the error is appended to the body
Write(resp, kind, code) ==
    IF resp = NoResponse THEN HandleError(kind, code) ELSE [resp EXCEPT !.extra = Append(@, kind)]

\* VoluntaryExitsPool.InsertVoluntaryExit, SlashingsPool.Insert*Slashing
InsertOp(pool, o) == IF \E k \in 1..Len(pool) : pool[k] = o THEN pool ELSE Append(pool, o)

\* a faulty variant of VerificationState: the state as fetched is kept
VerificationState_AsFetched(fetched, advanced) == fetched

\* `headState, err = transition.ProcessSlotsIfPossible(ctx, headState, ...)`:
\* the state the calls that follow are given is the state returned
VerificationState(fetched, advanced) == advanced

\* the log event of headState.ValidatorAtIndexReadOnly: the call, named
\* apart when it answers consensus_types.ErrOutOfBounds
validatorCall(val) == IF val = "outOfBounds" THEN "validatorOutOfBounds" ELSE "validator"

\* a faulty variant of validatorErrStatus: every lookup error is a 500
validatorErrStatus_Always500(val) == StatusInternalServerError

\* the status of a validator lookup error: 400 for ErrOutOfBounds, 500 otherwise
validatorErrStatus(val) ==
    IF val = "outOfBounds" THEN StatusBadRequest ELSE StatusInternalServerError

\* a faulty variant of exitSteps: an exit whose broadcast failed is not
\* kept in the pool
exitSteps_InsertOnBroadcastSuccess(o, env, st, pool) ==
    LET l1 == <<Ev("decode", 1, TRUE), Ev("convert", 1, o.conv)>> IN
    IF ~o.conv THEN OpResult(HandleError("convert", StatusBadRequest), l1, pool) ELSE
    LET exit == OpToConsensus(o, "exit", "phase0")
        l2 == Append(l1, Ev("headState", st.slot, env.stOK)) IN
    IF ~env.stOK THEN OpResult(HandleError("headState", StatusInternalServerError), l2, pool) ELSE
    LET l3 == Append(l2, Ev("epochStart", 1, env.epochOK)) IN
    IF ~env.epochOK THEN OpResult(HandleError("epochStart", StatusInternalServerError), l3, pool) ELSE
    LET headState == VerificationState(st, ProcessSlotsIfPossible(st, exit.slot))
        l4 == Append(l3, Ev("processSlots", headState.slot, env.psOK)) IN
    IF ~env.psOK THEN OpResult(HandleError("processSlots", StatusInternalServerError), l4, pool) ELSE
    LET l5 == Append(l4, Ev(validatorCall(env.val), 1, env.val = "ok")) IN
    IF env.val # "ok" THEN OpResult(HandleError("validator", validatorErrStatus(env.val)), l5, pool) ELSE
    LET l6 == Append(l5, Ev("verify", headState.slot, VerifyOp(headState, exit))) IN
    IF ~VerifyOp(headState, exit) THEN OpResult(HandleError("invalidExit", StatusBadRequest), l6, pool) ELSE
    LET l7 == l6 \o <<Ev("insert", 1, TRUE), Ev("bcast", 1, env.bcOK)>> IN
    IF ~env.bcOK THEN OpResult(HandleError("broadcast", StatusInternalServerError), l7, pool)
    ELSE OpResult(EmptyOK, l7, InsertOp(pool, exit))

\* SubmitVoluntaryExit after the decoding of the body: the log events of the
\* state calls carry the slot of the state they return or are given
exitSteps(o, env, st, pool) ==
    LET l1 == <<Ev("decode", 1, TRUE), Ev("convert", 1, o.conv)>> IN
    IF ~o.conv THEN OpResult(HandleError("convert", StatusBadRequest), l1, pool) ELSE
    LET exit == OpToConsensus(o, "exit", "phase0")
        l2 == Append(l1, Ev("headState", st.slot, env.stOK)) IN
    IF ~env.stOK THEN OpResult(HandleError("headState", StatusInternalServerError), l2, pool) ELSE
    LET l3 == Append(l2, Ev("epochStart", 1, env.epochOK)) IN
    IF ~env.epochOK THEN OpResult(HandleError("epochStart", StatusInternalServerError), l3, pool) ELSE
    LET headState == VerificationState(st, ProcessSlotsIfPossible(st, exit.slot))
        l4 == Append(l3, Ev("processSlots", headState.slot, env.psOK)) IN
    IF ~env.psOK THEN OpResult(HandleError("processSlots", StatusInternalServerError), l4, pool) ELSE
    LET l5 == Append(l4, Ev(validatorCall(env.val), 1, env.val = "ok")) IN
    IF env.val # "ok" THEN OpResult(HandleError("validator", validatorErrStatus(env.val)), l5, pool) ELSE
    LET l6 == Append(l5, Ev("verify", headState.slot, VerifyOp(headState, exit))) IN
    IF ~VerifyOp(headState, exit) THEN OpResult(HandleError("invalidExit", StatusBadRequest), l6, pool) ELSE
    LET l7 == l6 \o <<Ev("insert", 1, TRUE), Ev("bcast", 1, env.bcOK)>> IN
    IF ~env.bcOK THEN OpResult(HandleError("broadcast", StatusInternalServerError), l7, InsertOp(pool, exit))
    ELSE OpResult(EmptyOK, l7, InsertOp(pool, exit))

ServedOp(e, req, r) == Served(e, req, r.resp, r.log)

SubmitVoluntaryExit(req, env) ==
    /\ pc = "idle"
    /\ IF req.body.kind = "absent" THEN
            /\ Served("SubmitVoluntaryExit", req, HandleError("nodata", StatusBadRequest), <<Ev("decode", 1, FALSE)>>)
            /\ UNCHANGED exitsPool
       ELSE IF req.body.kind = "garbage" THEN
            /\ Served("SubmitVoluntaryExit", req, HandleError("decode", StatusBadRequest), <<Ev("decode", 1, FALSE)>>)
            /\ UNCHANGED exitsPool
       ELSE LET r == exitSteps(req.body.items[1], env, head, exitsPool) IN
            /\ ServedOp("SubmitVoluntaryExit", req, r)
            /\ exitsPool' = r.pool
    /\ UNCHANGED <<aggPool, unaggPool, blsPool, head, loops, now, slashingsPool, features>>

\* a faulty variant of slashingEffects: the knob is not looked at
slashingEffects_AlwaysBroadcast(lg, knob, bcOK) ==
    IF ~bcOK THEN [err |-> TRUE, log |-> lg \o <<Ev("notify", 1, TRUE), Ev("bcast", 1, FALSE)>>]
    ELSE [err |-> FALSE, log |-> lg \o <<Ev("notify", 1, TRUE), Ev("bcast", 1, TRUE)>>]

\* a faulty variant of slashingEffects: the notifier event is sent once
\* the broadcast succeeded
slashingEffects_BroadcastFirst(lg, knob, bcOK) ==
    IF knob THEN [err |-> FALSE, log |-> Append(lg, Ev("notify", 1, TRUE))]
    ELSE IF ~bcOK THEN [err |-> TRUE, log |-> Append(lg, Ev("bcast", 1, FALSE))]
    ELSE [err |-> FALSE, log |-> lg \o <<Ev("bcast", 1, TRUE), Ev("notify", 1, TRUE)>>]

\* the tail of submitAttesterSlashing and of SubmitProposerSlashing once the
\* pool has taken the slashing: the notifier event, then the broadcast
\* unless features.Get().DisableBroadcastSlashings
slashingEffects(lg, knob, bcOK) ==
    LET l1 == Append(lg, Ev("notify", 1, TRUE)) IN
    IF knob THEN [err |-> FALSE, log |-> l1]
    ELSE [err |-> ~bcOK, log |-> Append(l1, Ev("bcast", 1, bcOK))]

\* submitAttesterSlashing(w, ctx, slashing), and SubmitProposerSlashing from
\* its HeadState call on: lg the calls made before, resp the response
\* written before; the log events of the state calls carry the slot of the
\* state they return or are given
submitSlashing(slashing, env, st, pool, knob, lg, resp) ==
    LET l2 == Append(lg, Ev("headState", st.slot, env.stOK)) IN
    IF ~env.stOK THEN OpResult(Write(resp, "headState", StatusInternalServerError), l2, pool) ELSE
    LET headState == VerificationState(st, ProcessSlotsIfPossible(st, slashing.slot))
        l3 == Append(l2, Ev("processSlots", headState.slot, env.psOK)) IN
    IF ~env.psOK THEN OpResult(Write(resp, "processSlots", StatusInternalServerError), l3, pool) ELSE
    LET l4 == Append(l3, Ev("verify", headState.slot, VerifyOp(headState, slashing))) IN
    IF ~VerifyOp(headState, slashing) THEN OpResult(Write(resp, "invalidSlashing", StatusBadRequest), l4, pool) ELSE
    LET l5 == Append(l4, Ev("insert", 1, env.insOK)) IN
    IF ~env.insOK THEN OpResult(Write(resp, "insert", StatusInternalServerError), l5, pool) ELSE
    LET t == slashingEffects(l5, knob, env.bcOK) IN
    IF t.err THEN OpResult(Write(resp, "broadcast", StatusInternalServerError), t.log, InsertOp(pool, slashing))
    ELSE OpResult(IF resp = NoResponse THEN EmptyOK ELSE resp, t.log, InsertOp(pool, slashing))

\* the decoding and the conversion of the body of a slashing, then
\* submitSlashing; resp is the response written before the body was read
decodeSlashing(body, kind, variant, env, st, pool, knob, resp) ==
    IF body.kind = "absent" THEN OpResult(Write(resp, "nodata", StatusBadRequest), <<Ev("decode", 1, FALSE)>>, pool) ELSE
    IF body.kind = "garbage" THEN OpResult(Write(resp, "decode", StatusBadRequest), <<Ev("decode", 1, FALSE)>>, pool) ELSE
    LET o == body.items[1]
        l1 == <<Ev("decode", 1, TRUE), Ev("convert", 1, o.conv)>> IN
    IF ~o.conv THEN OpResult(Write(resp, "convert", StatusBadRequest), l1, pool)
    ELSE submitSlashing(OpToConsensus(o, kind, variant), env, st, pool, knob, l1, resp)

SubmitAttesterSlashings(req, env) ==
    /\ pc = "idle"
    /\ LET r == decodeSlashing(req.body, "attester", "phase0", env, head, slashingsPool,
                               features.DisableBroadcastSlashings, NoResponse) IN
            /\ ServedOp("SubmitAttesterSlashings", req, r)
            /\ slashingsPool' = r.pool
    /\ UNCHANGED <<aggPool, unaggPool, blsPool, head, loops, now, exitsPool, features>>

\* the header is looked at twice: an empty header is answered, and then
\* (the handler goes on) handed to version.FromString, which refuses it
SubmitAttesterSlashingsV2(req, env) ==
    /\ pc = "idle"
    /\ LET w1 == IF req.hdr = "" THEN HandleError("versionRequired", StatusBadRequest) ELSE NoResponse
           v == FromString(req.hdr)
       IN  IF v.err THEN
                /\ Served("SubmitAttesterSlashingsV2", req, Write(w1, "invalidVersion", StatusBadRequest), <<>>)
                /\ UNCHANGED slashingsPool
           ELSE LET r == decodeSlashing(req.body, "attester",
                                        IF v.v >= Electra THEN "electra" ELSE "phase0",
                                        env, head, slashingsPool, features.DisableBroadcastSlashings, w1) IN
                /\ ServedOp("SubmitAttesterSlashingsV2", req, r)
                /\ slashingsPool' = r.pool
    /\ UNCHANGED <<aggPool, unaggPool, blsPool, head, loops, now, exitsPool, features>>

SubmitProposerSlashing(req, env) ==
    /\ pc = "idle"
    /\ LET r == decodeSlashing(req.body, "proposer", "phase0", env, head, slashingsPool,
                               features.DisableBroadcastSlashings, NoResponse) IN
            /\ ServedOp("SubmitProposerSlashing", req, r)
            /\ slashingsPool' = r.pool
    /\ UNCHANGED <<aggPool, unaggPool, blsPool, head, loops, now, exitsPool, features>>

-----------------------------------------------------------------------------
(* One request to any submission endpoint, under either setting of the knob *)

MaxOpsBatch == 1       \* longest attestation batch explored beside the single operations

InitOps ==
    /\ pc = "idle"
    /\ ep = "none"
    /\ request = [hdr |-> "", body |-> Body("absent", <<>>)]
    /\ response = NoResponse
    /\ log = <<>>
    /\ aggPool = <<>>
    /\ unaggPool = <<>>
    /\ blsPool = <<>>
    /\ head \in OpHeadStates
    /\ loops = <<>>
    /\ now = 0
    /\ exitsPool = <<>>
    /\ slashingsPool = <<>>
    /\ features \in [DisableBroadcastSlashings : BOOLEAN]

ExitRequest == pc = "idle" /\ \E req \in Requests({""}, OpBodies), env \in OpEnvs : SubmitVoluntaryExit(req, env)

AttesterSlashingRequest ==
    pc = "idle" /\ \E req \in Requests({""}, OpBodies), env \in OpEnvs : SubmitAttesterSlashings(req, env)

AttesterSlashingRequestV2 ==
    pc = "idle" /\ \E req \in Requests(Headers, OpBodies), env \in OpEnvs : SubmitAttesterSlashingsV2(req, env)

ProposerSlashingRequest ==
    pc = "idle" /\ \E req \in Requests({""}, OpBodies), env \in OpEnvs : SubmitProposerSlashing(req, env)

\* requests to SubmitAttestations and SubmitAttestationsV2 with a short batch
OpsAttBodies == {Body("list", b) : b \in UNION {AttBodiesOfLen(n) : n \in 0..MaxOpsBatch}}

OpsAttRequest == pc = "idle" /\ \E req \in Requests({""}, OpsAttBodies), env \in AttEnvs : SubmitAttestations(req, env)

OpsAttRequestV2 ==
    pc = "idle" /\ \E req \in Requests(Headers, OpsAttBodies), env \in AttEnvs : SubmitAttestationsV2(req, env)

\* the first call of broadcastBLSBatch of the goroutine of a BLS request
OpsLoopFirst == \E i \in 1..Len(loops), e \in BatchEnvs : LoopFirst(i, e.stOK, e.fails)

NextOps ==
    \/ ExitRequest
    \/ AttesterSlashingRequest
    \/ AttesterSlashingRequestV2
    \/ ProposerSlashingRequest
    \/ OpsAttRequest
    \/ OpsAttRequestV2
    \/ BLSRequest
    \/ OpsLoopFirst

SpecOps == InitOps /\ [][NextOps]_vars

-----------------------------------------------------------------------------
(* The list endpoints of the attestation pool and of the slashings pool *)

MaxPoolLen == 2        \* longest pool enumeration explored

\* An attestation as the pool holds it: pos its identity, variant the Go
\* type behind the interface ("phase0" for *eth.Attestation, "electra" for
\* *eth.AttestationElectra), slot and cidx the Slot and CommitteeIndex of
\* its data, committee the committee it attests for: data.CommitteeIndex
\* for the phase0 variant; for the Electra variant the index of the bit set
\* in its committee bits, data.CommitteeIndex being 0
PoolAtt(pos, variant, slot, committee, bits) ==
    [pos |-> pos, variant |-> variant, slot |-> slot,
     cidx |-> IF variant = "electra" THEN 0 ELSE committee,
     committee |-> committee, bits |-> bits, cbits |-> TRUE]

Variants == {"phase0", "electra"}

PoolAtts(pos, bits) == {PoolAtt(pos, v, s, c, bits) : v \in Variants, s \in {0, 1}, c \in {0, 1}}

\* the contents of the attestation pool explored: na aggregated entries
\* followed by nu unaggregated entries, identified by their place
AttPools(na, nu) ==
    [agg : {q \in [1..na -> UNION {PoolAtts(p, 2) : p \in 1..na}] : \A p \in 1..na : q[p].pos = p},
     unagg : {q \in [1..nu -> UNION {PoolAtts(na + p, 1) : p \in 1..nu}] : \A p \in 1..nu : q[p].pos = na + p}]

\* the entries of the slashings pool explored
PoolSlashings ==
    {OpToConsensus(Op(TRUE, 0, {0}), "attester", v) : v \in Variants}
        \cup {OpToConsensus(Op(TRUE, 0, {0}), "proposer", "phase0")}

\* a query parameter as sent: absent, a number, or text that is no number
QueryValues == {"", "0", "1", "x"}

\* shared.UintFromQuery(w, r, name, false): the raw text, its value, and
\* whether the handler goes on (an absent parameter is accepted, a present
\* one must parse; if not a 400 is written)
UintFromQuery(raw) ==
    IF raw = "" THEN [raw |-> "", v |-> 0, ok |-> TRUE]
    ELSE IF raw = "0" THEN [raw |-> raw, v |-> 0, ok |-> TRUE]
    ELSE IF raw = "1" THEN [raw |-> raw, v |-> 1, ok |-> TRUE]
    ELSE [raw |-> "", v |-> 0, ok |-> FALSE]

\* a list request: the query in place of the header and body of a
\* submission
Query(slot, committeeIndex) == [hdr |-> "", body |-> Body("query", <<slot, committeeIndex>>)]

\* httputil.WriteJson(w, &structs.ListAttestationsResponse{Version, Data});
\* header is the Eth-Consensus-Version response header
WriteJson(version, data, header) ==
    [status |-> StatusOK, kind |-> "json", failures |-> <<>>, indices |-> <<>>,
     data |-> data, version |-> version, extra |-> <<>>, header |-> header]

\* shouldIncludeAttestation(data, rawSlot, slot, rawCommitteeIndex, committeeIndex)
shouldIncludeAttestation(data, rawSlot, slot, rawCommitteeIndex, committeeIndex) ==
    LET committeeIndexMatch == ~(rawCommitteeIndex # "" /\ data.cidx # committeeIndex)
        slotMatch == ~(rawSlot # "" /\ data.slot # slot)
    IN  committeeIndexMatch /\ slotMatch

\* structs.AttFromConsensus / structs.AttElectraFromConsensus: the struct
\* of the variant of the converter
AttFromConsensus(att, variant) ==
    [pos |-> att.pos, variant |-> variant, slot |-> att.slot, cidx |-> att.cidx]

\* structs.AttesterSlashingFromConsensus / AttesterSlashingElectraFromConsensus
SlashingFromConsensus(s, variant) == [kind |-> s.kind, variant |-> variant, slot |-> s.slot]

\* a faulty variant of Downcast: the type of the entry is not looked at
Downcast_Unchecked(entry, variant) == TRUE

\* `x, ok := entry.(*T)`: ok iff the entry is of the variant of T
Downcast(entry, variant) == entry.variant = variant

\* the loop over the enumeration once every downcast succeeded: the
\* entries that match, in enumeration order
filterAtts(atts, qs, qc) ==
    SelectSeq(atts, LAMBDA a : shouldIncludeAttestation(a, qs.raw, qs.v, qc.raw, qc.v))

\* the structs of a sequence of attestations
AttStructs(atts, variant) == [k \in 1..Len(atts) |-> AttFromConsensus(atts[k], variant)]

\* ListAttestations and ListAttestationsV2 from the enumeration on: the
\* first entry that is not of the variant expected ends the request
listAtts(atts, variant, qs, qc, version) ==
    IF \E k \in 1..Len(atts) : ~Downcast(atts[k], variant)
    THEN HandleError("convert", StatusInternalServerError)
    ELSE WriteJson(version, AttStructs(filterAtts(atts, qs, qc), variant), "")

\* a list handler returns: nothing but the response is left behind
Listed(e, req, resp) ==
    /\ Served(e, req, resp, <<>>)
    /\ UNCHANGED <<aggPool, unaggPool, blsPool, head, loops, now, exitsPool, slashingsPool, features>>

ListAttestations(slot, committeeIndex, unaggOK) ==
    LET qs == UintFromQuery(slot)
        qc == UintFromQuery(committeeIndex)
        req == Query(slot, committeeIndex)
    IN  /\ pc = "idle"
        /\ IF ~qs.ok THEN Listed("ListAttestations", req, HandleError("slot", StatusBadRequest))
           ELSE IF ~qc.ok THEN Listed("ListAttestations", req, HandleError("committee_index", StatusBadRequest))
           ELSE IF ~unaggOK THEN Listed("ListAttestations", req, HandleError("unaggregated", StatusInternalServerError))
           ELSE Listed("ListAttestations", req, listAtts(aggPool \o unaggPool, "phase0", qs, qc, ""))

ListAttestationsV2(slot, committeeIndex, stOK, unaggOK) ==
    LET qs == UintFromQuery(slot)
        qc == UintFromQuery(committeeIndex)
        req == Query(slot, committeeIndex)
    IN  /\ pc = "idle"
        /\ IF ~qs.ok THEN Listed("ListAttestationsV2", req, HandleError("slot", StatusBadRequest))
           ELSE IF ~qc.ok THEN Listed("ListAttestationsV2", req, HandleError("committee_index", StatusBadRequest))
           ELSE IF ~stOK THEN Listed("ListAttestationsV2", req, HandleError("headState", StatusInternalServerError))
           ELSE IF ~unaggOK THEN Listed("ListAttestationsV2", req, HandleError("unaggregated", StatusInternalServerError))
           ELSE Listed("ListAttestationsV2", req,
                       listAtts(aggPool \o unaggPool, IF head.version >= Electra THEN "electra" ELSE "phase0",
                                qs, qc, VersionString(head.version)))

\* SlashingsPool.PendingAttesterSlashings(ctx, headState, true)
PendingAttesterSlashings(pool) == SelectSeq(pool, LAMBDA s : s.kind = "attester")

\* GetAttesterSlashings and GetAttesterSlashingsV2 from the enumeration on
listSlashings(src, variant, version) ==
    IF \E k \in 1..Len(src) : ~Downcast(src[k], variant)
    THEN HandleError("convert", StatusInternalServerError)
    ELSE WriteJson(version, [k \in 1..Len(src) |-> SlashingFromConsensus(src[k], variant)], version)

GetAttesterSlashings(stOK) ==
    /\ pc = "idle"
    /\ IF ~stOK THEN Listed("GetAttesterSlashings", Query("", ""), HandleError("headState", StatusInternalServerError))
       ELSE Listed("GetAttesterSlashings", Query("", ""),
                   listSlashings(PendingAttesterSlashings(slashingsPool), "phase0", ""))

GetAttesterSlashingsV2(stOK) ==
    /\ pc = "idle"
    /\ IF ~stOK THEN Listed("GetAttesterSlashingsV2", Query("", ""), HandleError("headState", StatusInternalServerError))
       ELSE Listed("GetAttesterSlashingsV2", Query("", ""),
                   listSlashings(PendingAttesterSlashings(slashingsPool),
                                 IF head.version >= Electra THEN "electra" ELSE "phase0",
                                 VersionString(head.version)))

\* the head states served to the list endpoints: either side of Electra
ListHeadStates == [version : {Deneb, Electra}, invalid : {{}}, slot : {0}]

\* the pools a list request finds: attestations or slashings (a list
\* endpoint reads one pool)
InitList ==
    /\ pc = "idle"
    /\ ep = "none"
    /\ request = [hdr |-> "", body |-> Body("absent", <<>>)]
    /\ response = NoResponse
    /\ log = <<>>
    /\ blsPool = <<>>
    /\ head \in ListHeadStates
    /\ loops = <<>>
    /\ now = 0
    /\ exitsPool = <<>>
    /\ features = [DisableBroadcastSlashings |-> FALSE]
    /\ \/ /\ slashingsPool = <<>>
          /\ \E na, nu \in 0..MaxPoolLen :
                /\ na + nu <= MaxPoolLen
                /\ \E q \in AttPools(na, nu) : aggPool = q.agg /\ unaggPool = q.unagg
       \/ /\ aggPool = <<>>
          /\ unaggPool = <<>>
          /\ \E n \in 0..MaxPoolLen : slashingsPool \in [1..n -> PoolSlashings]

ListAttRequest ==
    pc = "idle" /\ \E s, c \in QueryValues, unaggOK \in BOOLEAN : ListAttestations(s, c, unaggOK)

ListAttRequestV2 ==
    pc = "idle" /\ \E s, c \in QueryValues, stOK, unaggOK \in BOOLEAN : ListAttestationsV2(s, c, stOK, unaggOK)

SlashingListRequest == pc = "idle" /\ \E stOK \in BOOLEAN : GetAttesterSlashings(stOK)

SlashingListRequestV2 == pc = "idle" /\ \E stOK \in BOOLEAN : GetAttesterSlashingsV2(stOK)

\* one request to one of the list endpoints
NextList ==
    \/ ListAttRequest
    \/ ListAttRequestV2
    \/ SlashingListRequest
    \/ SlashingListRequestV2

SpecList == InitList /\ [][NextList]_vars

-----------------------------------------------------------------------------
(* Vocabulary of the properties *)

LogIdx == 1..Len(log)

AttEndpoints == {"SubmitAttestations", "SubmitAttestationsV2"}

\* the pool saves of an attestation
InsertEvents == {"insertAgg", "insertUnagg"}

\* the calls by which a handler acts on the node or the network
SideEffectEvents ==
    InsertEvents \cup {"notify", "bcast", "submitSync", "notifyBLS", "insertBLS", "spawn"}

\* the call e was made for the item id, with the outcome ok
Has(e, id, ok) == \E k \in LogIdx : log[k] = Ev(e, id, ok)

\* the items of the batch, by position
Items == 1..Len(request.body.items)

\* the items that passed the per-item validation
Survivors == {id \in Items : Has("validate", id, TRUE)}

\* index (from 0) of a survivor among the survivors, in batch order
SurvivorIndex(id) == Cardinality({p \in Survivors : p < id})

\* the attestation of batch position id is in the attestation pool
InAttPool(id) ==
    \/ \E k \in 1..Len(aggPool) : aggPool[k].pos = id
    \/ \E k \in 1..Len(unaggPool) : unaggPool[k].pos = id

\* the elements of a sequence
Range(seq) == {seq[k] : k \in 1..Len(seq)}

-----------------------------------------------------------------------------
(* C1 *)

\* C1: in an attestation batch, for every item, the operation-feed event
\* comes before the broadcast and the broadcast before the pool save: a
\* save is preceded by the broadcast of the same item, and the feed event
\* of an item precedes its broadcast.
C1_NotifyBroadcastInsert ==
    ep \in AttEndpoints =>
        \A k \in LogIdx :
            /\ log[k].e \in InsertEvents =>
                    \E j \in 1..(k - 1) : log[j] = Ev("bcast", log[k].id, TRUE)
            /\ log[k].e = "bcast" =>
                    /\ \A j \in LogIdx :
                            (log[j].e = "notify" /\ log[j].id = log[k].id) => j < k
                    /\ \A j \in LogIdx :
                            (log[j].e \in InsertEvents /\ log[j].id = log[k].id) => k < j

\* an unaggregated attestation was announced, broadcast and saved
C1_Witness ==
    /\ pc = "done" /\ ep \in AttEndpoints
    /\ \E id \in Items :
            Has("notify", id, TRUE) /\ Has("bcast", id, TRUE) /\ Has("insertUnagg", id, TRUE)

-----------------------------------------------------------------------------
(* C2 *)

\* C2 as stated: in every batch endpoint, every side effect comes after
\* the validation of every item of the batch.
C2_Original ==
    pc = "done" =>
        \A k \in LogIdx : log[k].e \in SideEffectEvents =>
            \A j \in LogIdx : log[j].e = "validate" => j < k

\* C2: in the attestation and sync-message endpoints every side effect
\* comes after the validation of every item of the batch.  In the BLS
\* endpoint the feed event and the pool insertion of a change follow the
\* validation of that change only (later changes are validated after
\* them); the broadcasting goroutine is started after every change was
\* validated.
C2_TwoPhase ==
    pc = "done" =>
        IF ep # "SubmitBLSToExecutionChanges"
        THEN \A k \in LogIdx : log[k].e \in SideEffectEvents =>
                \A j \in LogIdx : log[j].e = "validate" => j < k
        ELSE \A k \in LogIdx :
                /\ log[k].e \in {"notifyBLS", "insertBLS"} =>
                        \E j \in 1..(k - 1) : log[j] = Ev("validate", log[k].id, TRUE)
                /\ log[k].e = "spawn" =>
                        \A j \in LogIdx : log[j].e = "validate" => j < k

\* an attestation batch whose first item was saved and whose second item
\* failed validation
C2_Witness ==
    /\ pc = "done" /\ ep \in AttEndpoints
    /\ Len(request.body.items) = 2
    /\ \E k \in LogIdx : log[k].e \in InsertEvents /\ log[k].id = 1
    /\ Has("validate", 2, FALSE)

-----------------------------------------------------------------------------
(* C3 *)

\* C3 as stated: an attestation whose broadcast failed is in the pool once
\* the request is served.
C3_Original ==
    (pc = "done" /\ ep \in AttEndpoints) =>
        \A id \in Items : Has("bcast", id, FALSE) => InAttPool(id)

\* C3: an attestation whose broadcast failed is not handed to the pool: no
\* pool save is made for it and it is not in the pool once the request is
\* served.  Its index among the items that passed validation is what the
\* 500 response lists, and the response is that 500 unless the Electra
\* handler ended on a committee-index error.
C3_BroadcastFailureSkipsPool ==
    (pc = "done" /\ ep \in AttEndpoints) =>
        \A id \in Items : Has("bcast", id, FALSE) =>
            /\ ~\E k \in LogIdx : log[k].e \in InsertEvents /\ log[k].id = id
            /\ ~InAttPool(id)
            /\ response.kind # "committeeIndex" =>
                    /\ response.status = StatusInternalServerError
                    /\ SurvivorIndex(id) \in Range(response.indices)

\* a batch of two: the broadcast of the first failed, the second was saved
C3_Witness ==
    /\ pc = "done" /\ ep \in AttEndpoints
    /\ Has("bcast", 1, FALSE)
    /\ InAttPool(2)

-----------------------------------------------------------------------------
(* C4 *)

\* an attestation request whose body was decoded to a non-empty list (and
\* whose version header, where one is read, names a fork)
AttProcessed ==
    /\ pc = "done" /\ ep \in AttEndpoints
    /\ request.body.kind = "list" /\ Len(request.body.items) > 0
    /\ ep = "SubmitAttestationsV2" => ~FromString(request.hdr).err

\* the items recorded in failedBroadcasts: validator lookup or broadcast failed
FailedBroadcastIds == {id \in Items : Has("vals", id, FALSE) \/ Has("bcast", id, FALSE)}

\* the items that failed the per-item validation
FailedValidation == {id \in Items : Has("validate", id, FALSE)}

\* the batch indices listed in the failures of the response
ListedFailures == {response.failures[k].Index : k \in 1..Len(response.failures)}

\* the Electra handler ended on a committee-index error
Fatal == \E id \in Items : Has("committeeIndex", id, FALSE)

\* the status policy of a batch that ran to its end
AttStatusPolicy ==
    IF FailedBroadcastIds # {} THEN
        /\ response.status = StatusInternalServerError
        /\ Len(response.indices) = Cardinality(FailedBroadcastIds)
    ELSE IF FailedValidation # {} THEN
        /\ response.status = StatusBadRequest
        /\ ListedFailures = {id - 1 : id \in FailedValidation}
        /\ Len(response.failures) = Cardinality(FailedValidation)
    ELSE response.status = StatusOK

\* C4 as stated: for every attestation batch, Phase B runs over every item
\* that passed validation, and the status is 500 if an entry was recorded
\* in failedBroadcasts, else 400 with every validation failure if there is
\* one, else 200.
C4_Original ==
    AttProcessed =>
        /\ \A id \in Survivors : \E k \in LogIdx : log[k].e = "vals" /\ log[k].id = id
        /\ AttStatusPolicy

\* C4: an attestation request is answered 400 as a whole, with no call
\* made, when its body or header is rejected; when the Electra handler
\* fails to derive a committee index it stops at that item and the answer
\* is 400 without any list, whatever failed before; otherwise Phase B
\* runs over every item that passed validation and the status is 500 if an
\* entry was recorded in failedBroadcasts, else 400 with every validation
\* failure if there is one, else 200.
C4_StatusPolicy ==
    (pc = "done" /\ ep \in AttEndpoints) =>
        IF ~AttProcessed THEN
            /\ response.status = StatusBadRequest
            /\ log = <<>>
        ELSE IF Fatal THEN
            /\ response = HandleError("committeeIndex", StatusBadRequest)
            /\ log[Len(log)].e = "committeeIndex"
            /\ FromString(request.hdr).v >= Electra
        ELSE
            /\ \A id \in Survivors : \E k \in LogIdx : log[k].e = "vals" /\ log[k].id = id
            /\ AttStatusPolicy

\* the broadcast of the first item failed, the committee index of the
\* second could not be derived: 400, and no list
C4_Witness ==
    /\ AttProcessed
    /\ Has("bcast", 1, FALSE)
    /\ Has("committeeIndex", 2, FALSE)
    /\ response.status = StatusBadRequest

-----------------------------------------------------------------------------
(* C5 *)

\* a batch request that reached its per-item loops
Processed == pc = "done" /\ log # <<>>

\* the item failed after validation: lookup, broadcast or core submission
PhaseBFailed(id) ==
    Has("vals", id, FALSE) \/ Has("bcast", id, FALSE) \/ Has("submitSync", id, FALSE)

\* C5 as stated: every item that failed is in the response, a validation
\* failure in the failures with its batch index, a later failure among the
\* indices with its batch index.
C5_Original ==
    Processed =>
        \A id \in Items :
            /\ Has("validate", id, FALSE) => (id - 1) \in ListedFailures
            /\ PhaseBFailed(id) => (id - 1) \in Range(response.indices)

\* every validation failure is listed with its batch index, once
AllValidationFailuresListed ==
    /\ ListedFailures = {id - 1 : id \in FailedValidation}
    /\ Len(response.failures) = Cardinality(FailedValidation)

\* C5: what the response tells of the items depends on its kind.
\* Attestations: after a committee-index error, nothing; when entries were
\* recorded in failedBroadcasts, one index per such item, which is its
\* index among the items that passed validation, and no validation
\* failure; otherwise every validation failure with its batch index, and
\* every other item was broadcast and handed to the pool.  BLS changes:
\* every failure with its batch index, and every other change was
\* inserted.  Sync messages: after a core submission error, that error
\* alone; otherwise every conversion failure with its batch index, and
\* every other message was submitted.  The status is 200 iff no item
\* failed.
C5_Accounting ==
    Processed =>
        /\ ep \in AttEndpoints =>
                IF Fatal THEN response = HandleError("committeeIndex", StatusBadRequest)
                ELSE IF FailedBroadcastIds # {} THEN
                    /\ response.kind = "broadcast" /\ response.failures = <<>>
                    /\ Range(response.indices) = {SurvivorIndex(id) : id \in FailedBroadcastIds}
                    /\ Len(response.indices) = Cardinality(FailedBroadcastIds)
                ELSE
                    /\ AllValidationFailuresListed /\ response.indices = <<>>
                    /\ \A id \in Items \ FailedValidation :
                            /\ Has("bcast", id, TRUE)
                            /\ \E k \in LogIdx : log[k].e \in InsertEvents /\ log[k].id = id
        /\ ep = "SubmitBLSToExecutionChanges" =>
                /\ AllValidationFailuresListed
                /\ \A id \in Items \ FailedValidation :
                        /\ Has("insertBLS", id, TRUE)
                        /\ \E k \in 1..Len(blsPool) : blsPool[k].id = id
        /\ ep = "SubmitSyncCommitteeSignatures" =>
                IF \E id \in Items : Has("submitSync", id, FALSE)
                THEN /\ response.kind = "submit" /\ response.failures = <<>>
                     /\ response.status \in {StatusBadRequest, StatusInternalServerError}
                ELSE /\ AllValidationFailuresListed
                     /\ \A id \in Items \ FailedValidation : Has("submitSync", id, TRUE)
        /\ response.status = StatusOK <=>
                (~Fatal /\ \A id \in Items : ~Has("validate", id, FALSE) /\ ~PhaseBFailed(id))

\* the first attestation failed validation, the broadcast of the second
\* failed: the 500 lists index 0 for the second and says nothing of the first
C5_Witness ==
    /\ Processed /\ ep \in AttEndpoints
    /\ Has("validate", 1, FALSE)
    /\ Has("bcast", 2, FALSE)
    /\ response.indices = <<0>>
    /\ response.failures = <<>>

-----------------------------------------------------------------------------
(* C6 *)

\* a pool save was made for the attestation of batch position id
SaveMade(id) == \E k \in LogIdx : log[k].e \in InsertEvents /\ log[k].id = id

\* C6 as stated: in an attestation batch, a pool save is made for every
\* item that passed validation, whatever happened to the other items.
C6_Original ==
    AttProcessed => \A id \in Survivors : SaveMade(id)

\* C6: in an attestation batch, a pool save is made for exactly the items
\* that passed validation and were broadcast, whatever happened to the
\* other items, and a save that succeeds leaves the item in the pool;
\* unless the handler ended on a committee-index error, every item that
\* passed validation was either saved or recorded in failedBroadcasts.  In
\* a BLS batch every change that passed validation is in the pool.
C6_PartialSuccess ==
    Processed =>
        /\ ep \in AttEndpoints =>
                /\ \A id \in Items : SaveMade(id) <=> Has("bcast", id, TRUE)
                /\ \A id \in Items :
                        (Has("insertAgg", id, TRUE) \/ Has("insertUnagg", id, TRUE)) => InAttPool(id)
                /\ ~Fatal => \A id \in Survivors : SaveMade(id) \/ id \in FailedBroadcastIds
        /\ ep = "SubmitBLSToExecutionChanges" =>
                \A id \in Survivors : \E k \in 1..Len(blsPool) : blsPool[k].id = id

\* the validator lookup failed for the first attestation, the second is in
\* the pool
C6_Witness ==
    /\ Processed /\ ep \in AttEndpoints
    /\ Has("vals", 1, FALSE)
    /\ Has("bcast", 2, TRUE)
    /\ InAttPool(2)

-----------------------------------------------------------------------------
(* C7 *)

\* a request to a batch endpoint with no body, or with an empty list
EmptyRequest ==
    /\ pc = "done"
    /\ \/ request.body.kind = "absent"
       \/ request.body.kind = "list" /\ Len(request.body.items) = 0

\* no collaborator was called, no pool changed, no goroutine was started
NoEffects ==
    /\ log = <<>>
    /\ aggPool = <<>> /\ unaggPool = <<>> /\ blsPool = <<>>
    /\ loops = <<>>

\* C7 as stated: a request with an empty batch or no body is answered 400
\* and has no effect.
C7_Original ==
    EmptyRequest => (response.status = StatusBadRequest /\ NoEffects)

\* C7: a request with an empty batch or no body has no effect, and is
\* answered 400, except by the BLS endpoint when the head state cannot be
\* read: the head state is read before the body, and the answer is 500.
C7_EmptyBatch ==
    EmptyRequest =>
        /\ NoEffects
        /\ IF response.kind = "headState"
           THEN ep = "SubmitBLSToExecutionChanges" /\ response.status = StatusInternalServerError
           ELSE response.status = StatusBadRequest

\* an empty list sent to the BLS endpoint while the head state is served
C7_Witness ==
    /\ EmptyRequest
    /\ ep = "SubmitBLSToExecutionChanges"
    /\ request.body.kind = "list"
    /\ response = HandleError("nodata", StatusBadRequest)

-----------------------------------------------------------------------------
(* C8 *)

LoopIdx == 1..Len(loops)

\* C8 as stated: a change is broadcast only when the fork of the head
\* state at the moment of the broadcast is Capella or later.
C8_Original ==
    \A i \in LoopIdx :
        loops[i].last.sent # <<>> => loops[i].last.st.version >= Capella

\* C8: the fork is looked at when the change is submitted, not when it is
\* broadcast.  The goroutine is handed the changes that passed validation
\* if the head state read by the request is at Capella or later, and none
\* otherwise; it broadcasts changes it was handed only.
C8_ForkGateAtSubmission ==
    \A i \in LoopIdx :
        /\ loops[i].fork < Capella => (loops[i].submitted = <<>> /\ loops[i].attempts = <<>>)
        /\ loops[i].fork >= Capella => Range(loops[i].submitted) = Survivors
        /\ Range(loops[i].attempts) \subseteq Range(loops[i].submitted)

\* changes were accepted while the head was before Capella; the head is
\* now at Capella, the goroutine has returned, and none was broadcast
C8_Witness ==
    \E i \in LoopIdx :
        /\ loops[i].fork < Capella
        /\ Survivors # {}
        /\ head.version >= Capella
        /\ loops[i].st = "exit"
        /\ loops[i].attempts = <<>>

-----------------------------------------------------------------------------
(* C9 *)

\* the broadcasts of the cycles of cs whose time is in [lo, hi)
RECURSIVE AttemptsIn(_, _, _)
AttemptsIn(cs, lo, hi) ==
    IF cs = <<>> THEN 0
    ELSE (IF lo <= Head(cs).time /\ Head(cs).time < hi THEN Head(cs).n ELSE 0)
            + AttemptsIn(Tail(cs), lo, hi)

-----------------------------------------------------------------------------
(* C10 *)

\* C10: in a cycle whose head state was served, the changes broadcast are
\* those of the changes taken off the queue that are valid against that
\* head state; the others are not broadcast, and all the changes taken
\* are off the queue.  In a cycle whose head state was not served nothing
\* is taken.  The goroutine leaves the pool as the request left it.
C10_Revalidation ==
    /\ \A i \in LoopIdx :
            LET l == loops[i] IN
            IF l.last.stOK
            THEN /\ Range(l.last.sent) = {id \in Range(l.last.taken) : id \notin l.last.st.invalid}
                 /\ Range(l.last.taken) \cap Range(Ids(l.changes)) = {}
            ELSE l.last.taken = <<>> /\ l.last.sent = <<>>
    /\ Ids(blsPool) = Ids(SelectSeq(log, LAMBDA e : e.e = "insertBLS"))

\* the first change of the second release is no longer valid when the
\* second cycle runs: it is off the queue, was never broadcast, and is in
\* the pool
C10_Witness ==
    \E i \in LoopIdx :
        LET l == loops[i]
            id == broadcastBLSChangesRateLimit + 1
        IN /\ Len(l.cycles) = 2
           /\ l.last.stOK
           /\ id \in Range(l.last.taken)
           /\ id \in l.last.st.invalid
           /\ id \notin Range(l.attempts)
           /\ id \notin Range(Ids(l.changes))
           /\ id \in Range(Ids(blsPool))

-----------------------------------------------------------------------------
(* C11 *)

\* every goroutine started has returned
AllExited == \A i \in LoopIdx : loops[i].st = "exit"

-----------------------------------------------------------------------------
(* C12 *)

\* C12 as stated: the end of the request's context does not end the loop
\* the request started: a loop returns only when it has released its
\* whole queue (no other context than the request's is handed to it).
C12_Original ==
    \A i \in LoopIdx : loops[i].st = "exit" => loops[i].changes = <<>>

-----------------------------------------------------------------------------
(* C13 *)

OpEndpoints ==
    {"SubmitVoluntaryExit", "SubmitAttesterSlashings", "SubmitAttesterSlashingsV2", "SubmitProposerSlashing"}

\* the operation of a single-operation request
TheOp == request.body.items[1]

\* the slot of the state the advancement of the head state to the slot of
\* the operation returns
AdvancedSlot == IF TheOp.slot > head.slot THEN TheOp.slot ELSE head.slot

\* the entries of the exits pool and of the slashings pool
OpPoolEntries == Range(exitsPool) \cup Range(slashingsPool)

-----------------------------------------------------------------------------
(* C14 *)

V2ListEndpoints == {"ListAttestationsV2", "GetAttesterSlashingsV2"}

\* the variant that goes with the fork of the head state
ExpectedVariant == IF head.version >= Electra THEN "electra" ELSE "phase0"

\* what the endpoint that served the request enumerates
Enumeration ==
    IF ep \in {"ListAttestations", "ListAttestationsV2"} THEN aggPool \o unaggPool
    ELSE PendingAttesterSlashings(slashingsPool)

\* the pool holds an entry of the variant that does not go with the fork
OtherVariantInPool == \E k \in 1..Len(Enumeration) : Enumeration[k].variant # ExpectedVariant

\* both query parameters of the request are absent or numbers
QueryParses ==
    UintFromQuery(request.body.items[1]).ok /\ UintFromQuery(request.body.items[2]).ok

\* a 200 of a V2 list endpoint carries entries of the variant of the fork
\* of the head state only, all entries enumerated are of that variant, and
\* its version field names the fork
OneVariant ==
    (ep \in V2ListEndpoints /\ response.status = StatusOK) =>
        /\ \A k \in 1..Len(response.data) : response.data[k].variant = ExpectedVariant
        /\ ~OtherVariantInPool
        /\ response.version = VersionString(head.version)

\* C14 as stated: OneVariant, and whenever the pool holds an entry of the
\* other variant the response is a 500 without entries
C14_Original ==
    /\ OneVariant
    /\ (ep \in V2ListEndpoints /\ OtherVariantInPool) =>
            response.status = StatusInternalServerError /\ response.data = <<>>

\* C14: OneVariant, and whenever the pool holds an entry of the other
\* variant the response carries no entries: it is a 500, or the 400 of a
\* query parameter that does not parse (the pool is then not read)
C14_Exclusivity ==
    /\ OneVariant
    /\ (ep \in V2ListEndpoints /\ OtherVariantInPool) =>
            /\ response.data = <<>>
            /\ response.status = IF QueryParses THEN StatusInternalServerError ELSE StatusBadRequest

\* the second of two entries is of the other variant: the request is
\* answered 500 because of it, nothing of the first entry is returned
C14_Witness ==
    /\ ep \in V2ListEndpoints
    /\ Len(Enumeration) = 2
    /\ Enumeration[1].variant = ExpectedVariant
    /\ Enumeration[2].variant # ExpectedVariant
    /\ response = HandleError("convert", StatusInternalServerError)

-----------------------------------------------------------------------------
(* C15 *)

V2SubmitEndpoints == {"SubmitAttestationsV2", "SubmitAttesterSlashingsV2"}

\* no pool holds anything and no goroutine was started
NothingStaged ==
    /\ aggPool = <<>> /\ unaggPool = <<>> /\ blsPool = <<>>
    /\ exitsPool = <<>> /\ slashingsPool = <<>>
    /\ loops = <<>>

\* C15: a V2 submission without the Eth-Consensus-Version header is
\* answered 400 "header is required", one whose header names no fork 400
\* "invalid version"; the body is not read, no collaborator is called and
\* nothing reaches a pool.
C15_VersionHeader ==
    (ep \in V2SubmitEndpoints /\ request.hdr \notin Range(VersionNames)) =>
        /\ response.status = StatusBadRequest
        /\ response.kind = IF request.hdr = "" THEN "versionRequired" ELSE "invalidVersion"
        /\ log = <<>>
        /\ NothingStaged

\* a slashing that would have been admitted is refused for its header
C15_Witness ==
    /\ ep = "SubmitAttesterSlashingsV2"
    /\ request.hdr = "bogus"
    /\ request.body.kind = "object"
    /\ TheOp.conv /\ AdvancedSlot \in TheOp.validAt
    /\ response = HandleError("invalidVersion", StatusBadRequest)

-----------------------------------------------------------------------------
(* C16 *)

SlashingEndpoints == {"SubmitAttesterSlashings", "SubmitAttesterSlashingsV2", "SubmitProposerSlashing"}

\* the broadcaster was called by the handler
BroadcastCalled == \E k \in LogIdx : log[k].e = "bcast"

\* C16: a slashing that verified and that the pool took is in the pool and
\* its notifier event was sent, whatever the knob; with the knob set the
\* broadcaster is not called and the response is 200, with the knob unset
\* it is called after the notifier event.  The other broadcasts follow from
\* the request alone under either setting: an exit inserted is broadcast,
\* an attestation whose validator lookup succeeded is broadcast (unless no
\* committee index can be derived from it), a cycle of the loop served the
\* head state broadcasts the changes valid against it.
C16_KnobScope ==
    /\ (ep \in SlashingEndpoints /\ Has("insert", 1, TRUE)) =>
        /\ slashingsPool # <<>>
        /\ \E k \in LogIdx : log[k] = Ev("insert", 1, TRUE) /\ k < Len(log) /\ log[k + 1] = Ev("notify", 1, TRUE)
        /\ features.DisableBroadcastSlashings =>
            /\ ~BroadcastCalled
            /\ response = EmptyOK
        /\ ~features.DisableBroadcastSlashings =>
            /\ log[Len(log)].e = "bcast"
            /\ response = IF log[Len(log)].ok THEN EmptyOK ELSE HandleError("broadcast", StatusInternalServerError)
    /\ (ep = "SubmitVoluntaryExit" /\ Has("insert", 1, TRUE)) => log[Len(log)].e = "bcast"
    /\ ep \in AttEndpoints =>
        \A k \in LogIdx : (log[k].e = "vals" /\ log[k].ok) =>
            /\ k < Len(log)
            /\ log[k + 1].id = log[k].id
            /\ log[k + 1].e = "bcast" \/ log[k + 1] = Ev("committeeIndex", log[k].id, FALSE)
    /\ \A i \in LoopIdx : loops[i].last.stOK =>
        Range(loops[i].last.sent) = {id \in Range(loops[i].last.taken) : id \notin loops[i].last.st.invalid}

\* with the knob set a slashing was admitted, notified and answered 200
C16_Witness ==
    /\ features.DisableBroadcastSlashings
    /\ ep \in SlashingEndpoints
    /\ slashingsPool # <<>>
    /\ Has("notify", 1, TRUE)
    /\ response = EmptyOK

-----------------------------------------------------------------------------
(* C17 *)

AttListEndpoints == {"ListAttestations", "ListAttestationsV2"}

\* the query parameters of the request: slot, committee_index
SlotParam == UintFromQuery(request.body.items[1])
CommitteeIndexParam == UintFromQuery(request.body.items[2])

\* an attestation matches the query: its slot is the slot asked for and
\* the committee it attests for is the committee asked for, for the
\* parameters that are present
MatchesQuery(att) ==
    /\ SlotParam.raw = "" \/ att.slot = SlotParam.v
    /\ CommitteeIndexParam.raw = "" \/ att.committee = CommitteeIndexParam.v

\* the identities of a sequence of attestations
Positions(seq) == [k \in 1..Len(seq) |-> seq[k].pos]

\* C17 as stated: a 200 of an attestation list endpoint carries the
\* attestations of the enumeration (aggregated, then unaggregated) that
\* match the query, in enumeration order; all of them when both parameters
\* are absent.
C17_Original ==
    (ep \in AttListEndpoints /\ response.status = StatusOK) =>
        Positions(response.data) = Positions(SelectSeq(aggPool \o unaggPool, MatchesQuery))

-----------------------------------------------------------------------------
(* C18 *)

\* the calls a handler makes for a validated item in its second loop
PhaseBEvents == InsertEvents \cup {"notify", "vals", "committeeIndex", "bcast"}

\* C18: when no committee index can be derived from the committee bits of
\* an item, that is the last thing the handler does: the request is
\* answered 400 with the error of the handler, without a list of failures
\* and without failed-broadcast indices; the item is neither broadcast nor
\* saved, and no call is made for a later item of the batch.
C18_FatalCommitteeIndex ==
    \A k \in LogIdx : log[k].e = "committeeIndex" =>
        /\ ep = "SubmitAttestationsV2"
        /\ FromString(request.hdr).v >= Electra
        /\ ~log[k].ok
        /\ k = Len(log)
        /\ response = HandleError("committeeIndex", StatusBadRequest)
        /\ response.failures = <<>> /\ response.indices = <<>>
        /\ ~InAttPool(log[k].id)
        /\ \A j \in LogIdx : log[j].id = log[k].id => log[j].e \notin InsertEvents \cup {"bcast"}
        /\ \A j \in LogIdx : log[j].id > log[k].id => log[j].e \notin PhaseBEvents

\* the derivation fails for the first of two validated items: nothing is
\* done for the second
C18_Witness ==
    /\ Has("committeeIndex", 1, FALSE)
    /\ Has("validate", 2, TRUE)
    /\ \A j \in LogIdx : log[j].id = 2 => log[j].e = "validate"
    /\ response.status = StatusBadRequest

-----------------------------------------------------------------------------
(* C19 *)

\* number of calls of broadcastBLSBatch that release n changes: ceil(n / 128),
\* and the one call the goroutine makes at once when there is nothing to release
CyclesFor(n) ==
    IF n = 0 THEN 1 ELSE (n + broadcastBLSChangesRateLimit - 1) \div broadcastBLSChangesRateLimit

\* every call of broadcastBLSBatch the loop made was served the head state
AllServed(l) == \A c \in 1..Len(l.cycles) : l.cycles[c].served

\* the changes at the positions [128k, min(128(k + 1), n)) of the batch
\* submitted, in submission order
Release(l, k) ==
    SubSeq(l.submitted, broadcastBLSChangesRateLimit * k + 1,
           Min(broadcastBLSChangesRateLimit * (k + 1), Len(l.submitted)))

\* C19: for a loop whose calls of broadcastBLSBatch were all served the
\* head state, the call number k (from 0) takes the changes at the
\* positions [128k, min(128(k + 1), n)) of the batch, in order, and hands
\* to the broadcaster those of them that are valid against its head state;
\* call k >= 1 is not made before the k-th firing of the ticker; the loop
\* makes at most ceil(n / 128) calls and has made that many when it returns
\* (a goroutine started with no change makes one call, which takes nothing).
C19_StagedRelease ==
    \A i \in LoopIdx :
        LET l == loops[i]
            k == Len(l.cycles) - 1
        IN  (l.cycles # <<>> /\ AllServed(l)) =>
                /\ l.last.taken = Release(l, k)
                /\ l.last.sent = SelectSeq(l.last.taken, LAMBDA id : id \notin l.last.st.invalid)
                /\ l.cycles[k + 1].n = Len(l.last.sent)
                /\ k >= 1 => l.cycles[k + 1].time >= l.created + k * TickerPeriod
                /\ k + 1 <= CyclesFor(Len(l.submitted))
                /\ l.st = "exit" <=> k + 1 = CyclesFor(Len(l.submitted))

\* a batch of 257 released in three calls, the second of which leaves out
\* a change that is no longer valid
C19_Witness ==
    \E i \in LoopIdx :
        LET l == loops[i] IN
        /\ l.st = "exit"
        /\ AllServed(l)
        /\ Len(l.submitted) = BigBLSBatch
        /\ Len(l.cycles) = 3
        /\ l.cycles[1].n = broadcastBLSChangesRateLimit
        /\ l.cycles[2].n = broadcastBLSChangesRateLimit - 1
        /\ l.cycles[3].n = 1

-----------------------------------------------------------------------------
(* C20 *)

\* the place of the call e in the log of a single-operation request, 0 if
\* the call was not made
At(e) == IF \E k \in LogIdx : log[k].e = e THEN CHOOSE k \in LogIdx : log[k].e = e ELSE 0

\* C20 as stated: for an operation accepted by a single-operation endpoint
\* the pool insert is not made before the broadcast attempt, and the
\* notifier event is not sent after it.
C20_Original ==
    ep \in OpEndpoints =>
        /\ At("insert") # 0 => (At("bcast") # 0 /\ At("bcast") < At("insert"))
        /\ (At("notify") # 0 /\ At("bcast") # 0) => At("notify") < At("bcast")

\* C20: the pool insert comes first.  A slashing is inserted, then (if the
\* pool took it) the notifier event is sent, then (unless the knob is set)
\* the broadcast is attempted; an exit is inserted and then broadcast, and
\* no notifier event is sent for it.  Nothing is undone: an operation
\* whose broadcast failed is in the pool, and its event was sent.
C20_InsertNotifyBroadcast ==
    /\ ep \in SlashingEndpoints =>
        /\ At("notify") # 0 => (log[At("insert")].ok /\ At("notify") = At("insert") + 1)
        /\ At("bcast") # 0 => At("bcast") = At("notify") + 1
        /\ (At("insert") # 0 /\ log[At("insert")].ok) =>
            /\ At("notify") # 0
            /\ slashingsPool # <<>>
            /\ At("bcast") # 0 <=> ~features.DisableBroadcastSlashings
        /\ (At("insert") # 0 /\ ~log[At("insert")].ok) =>
            At("notify") = 0 /\ At("bcast") = 0 /\ slashingsPool = <<>>
    /\ ep = "SubmitVoluntaryExit" =>
        /\ At("notify") = 0
        /\ At("insert") # 0 <=> At("bcast") # 0
        /\ At("insert") # 0 => (At("bcast") = At("insert") + 1 /\ exitsPool # <<>>)
    /\ ep \in OpEndpoints => (At("insert") = 0 => (exitsPool = <<>> /\ slashingsPool = <<>>))

\* a slashing whose broadcast failed: answered 500, in the pool, notified
C20_Witness ==
    /\ ep \in SlashingEndpoints
    /\ Has("bcast", 1, FALSE)
    /\ response.status = StatusInternalServerError
    /\ slashingsPool # <<>>
    /\ Has("notify", 1, TRUE)

-----------------------------------------------------------------------------
(* C21 *)

\* C21 as stated: the indices of the 500 of an attestation batch are the
\* positions in the submitted batch of the items recorded in
\* failedBroadcasts, whatever happened to the items before them.
C21_Original ==
    (ep \in AttEndpoints /\ response.kind = "broadcast") =>
        Range(response.indices) = {id - 1 : id \in FailedBroadcastIds}

-----------------------------------------------------------------------------
(* C22 *)

\* the call of SubmitVoluntaryExit that failed, "" if none did
FailedCall == IF log # <<>> /\ ~log[Len(log)].ok THEN log[Len(log)].e ELSE ""

\* C22: SubmitVoluntaryExit answers a validator index out of bounds with
\* 400 and another lookup error with 500; a head-state, epoch-start or
\* state-advancement error with 500; an exit that does not verify with
\* 400.  In each of these cases the failing call is the last the handler
\* makes: the exit pool is as it was and the broadcaster is not called.
C22_ExitFailures ==
    ep = "SubmitVoluntaryExit" =>
        /\ (FailedCall = "validatorOutOfBounds") => response = HandleError("validator", StatusBadRequest)
        /\ (FailedCall = "validator") => response = HandleError("validator", StatusInternalServerError)
        /\ (FailedCall = "headState") => response = HandleError("headState", StatusInternalServerError)
        /\ (FailedCall = "epochStart") => response = HandleError("epochStart", StatusInternalServerError)
        /\ (FailedCall = "processSlots") => response = HandleError("processSlots", StatusInternalServerError)
        /\ (FailedCall = "verify") => response = HandleError("invalidExit", StatusBadRequest)
        /\ \A k \in LogIdx :
                (~log[k].ok /\ log[k].e \in {"validatorOutOfBounds", "validator", "headState",
                                             "epochStart", "processSlots", "verify"}) =>
                    /\ k = Len(log)
                    /\ exitsPool = <<>>
                    /\ ~BroadcastCalled

\* the validator index of an exit that would verify is out of bounds
C22_Witness ==
    /\ ep = "SubmitVoluntaryExit"
    /\ FailedCall = "validatorOutOfBounds"
    /\ AdvancedSlot \in TheOp.validAt
    /\ response.status = StatusBadRequest
    /\ exitsPool = <<>>

-----------------------------------------------------------------------------
(* C23 *)

\* the log positions of the calls of CoreService.SubmitSyncMessage
SubmitCalls == {k \in LogIdx : log[k].e = "submitSync"}

\* C23: the messages that converted are handed to the core service in
\* batch order, after the conversion of the whole batch; the first core
\* error ends the handler, which answers with that error alone, under a
\* status of the core error, and submits nothing more; the 400 listing
\* the conversion failures is written only when every message that
\* converted was submitted without error.
C23_SyncSubmission ==
    ep = "SubmitSyncCommitteeSignatures" =>
        /\ \A k \in SubmitCalls :
            /\ Has("validate", log[k].id, TRUE)
            /\ \A j \in LogIdx : log[j].e = "validate" => j < k
            /\ \A j \in SubmitCalls : j < k <=> log[j].id < log[k].id
            /\ \A id \in Survivors : id < log[k].id => Has("submitSync", id, TRUE)
            /\ ~log[k].ok =>
                /\ k = Len(log)
                /\ response.kind = "submit" /\ response.failures = <<>>
                /\ response.status \in {ErrorReasonToHTTP(r) : r \in SyncOutcomes \ {"ok"}}
        /\ response.kind = "failures" =>
            /\ \A id \in Survivors : Has("submitSync", id, TRUE)
            /\ \A k \in SubmitCalls : log[k].ok
            /\ ListedFailures = {id - 1 : id \in FailedValidation}
        /\ response.kind = "submit" => \E k \in SubmitCalls : ~log[k].ok

\* the first message does not convert, the core service refuses the
\* second: the response is the core error, the conversion failure is not
\* reported
C23_Witness ==
    /\ ep = "SubmitSyncCommitteeSignatures"
    /\ Has("validate", 1, FALSE)
    /\ Has("submitSync", 2, FALSE)
    /\ response.kind = "submit"
    /\ response.failures = <<>>

-----------------------------------------------------------------------------
(* C24 *)

\* the aggregation bits of the item of batch position id
Bits(id) == request.body.items[id].bits

\* the feed events sent for the item of batch position id
Notifications(id) == {k \in LogIdx : log[k].e = "notify" /\ log[k].id = id}

\* the second loop of the handler came to the item: no earlier item of the
\* batch ended the handler on a committee-index error
Reached(id) == \A j \in Items : j < id => ~Has("committeeIndex", j, FALSE)

\* every save of an item is the aggregated one iff the item has more than
\* one aggregation bit set, and the item is kept in the matching pool
SaveByAggregation(id) ==
    /\ Has("insertAgg", id, TRUE) \/ Has("insertAgg", id, FALSE) => Bits(id) > 1
    /\ Has("insertUnagg", id, TRUE) \/ Has("insertUnagg", id, FALSE) => Bits(id) <= 1
    /\ (\E k \in 1..Len(aggPool) : aggPool[k].pos = id) => Bits(id) > 1
    /\ (\E k \in 1..Len(unaggPool) : unaggPool[k].pos = id) => Bits(id) <= 1

\* C24 as stated: in an attestation batch the feed event is sent for an
\* item exactly when the item passed validation and is unaggregated, at
\* most once; an item is saved through the aggregated insert iff it is
\* aggregated.
C24_Original ==
    AttProcessed =>
        \A id \in Items :
            /\ Notifications(id) # {} <=> (id \in Survivors /\ Bits(id) <= 1)
            /\ Cardinality(Notifications(id)) <= 1
            /\ SaveByAggregation(id)

\* C24: in an attestation batch the feed event is sent for an item exactly
\* when the item passed validation, is unaggregated and was reached by the
\* second loop (no earlier item ended the handler on a committee-index
\* error), at most once; an item is saved through the aggregated insert
\* iff it is aggregated, through the unaggregated insert otherwise.
C24_NotifyAndSave ==
    AttProcessed =>
        \A id \in Items :
            /\ Notifications(id) # {} <=>
                   (id \in Survivors /\ Bits(id) <= 1 /\ Reached(id))
            /\ Cardinality(Notifications(id)) <= 1
            /\ SaveByAggregation(id)

\* a batch of an aggregated and an unaggregated attestation, both saved:
\* only the unaggregated one was announced on the feed
C24_Witness ==
    /\ AttProcessed
    /\ Len(request.body.items) = 2
    /\ Bits(1) > 1 /\ Bits(2) <= 1
    /\ Has("insertAgg", 1, TRUE) /\ Has("insertUnagg", 2, TRUE)
    /\ Notifications(1) = {} /\ Notifications(2) # {}

-----------------------------------------------------------------------------
(* C25 *)

\* the request came to the loop over the submitted changes: the head state
\* was served and the body is a list that is not empty
ReachedItemLoop ==
    /\ ep = "SubmitBLSToExecutionChanges"
    /\ request.body.kind = "list" /\ Len(request.body.items) > 0
    /\ response.kind # "headState"

\* the positions in the log of the events e of the change id
EventsOf(e, id) == {k \in LogIdx : log[k].e = e /\ log[k].id = id}

\* the change id is in the pool of BLS changes
InBLSPool(id) == \E k \in 1..Len(blsPool) : blsPool[k].id = id

\* C25: in SubmitBLSToExecutionChanges a change that fails conversion,
\* validation against the head state or signature verification gets a
\* failure under its batch index, no feed event, no pool insertion and no
\* place among the changes handed to the goroutine; a change that passes
\* gets one feed event and then one pool insertion whatever the fork, and
\* is handed to the goroutine iff the head state read by the request is at
\* Capella or later; the goroutine is started once by a request that comes
\* to the loop over the changes, and by no other.
C25_BLSItems ==
    ep = "SubmitBLSToExecutionChanges" =>
        /\ Cardinality({k \in LogIdx : log[k].e = "spawn"}) = (IF ReachedItemLoop THEN 1 ELSE 0)
        /\ Len(loops) = (IF ReachedItemLoop THEN 1 ELSE 0)
        /\ ~ReachedItemLoop => log = <<>> /\ blsPool = <<>>
        /\ ReachedItemLoop =>
            \A id \in Items :
                LET c == request.body.items[id] IN
                /\ Has("validate", id, TRUE) \/ Has("validate", id, FALSE)
                /\ (~c.conv \/ ~c.sig) => Has("validate", id, FALSE)
                /\ Has("validate", id, FALSE) =>
                    /\ response.kind = "failures"
                    /\ response.status = StatusBadRequest
                    /\ id - 1 \in ListedFailures
                    /\ EventsOf("notifyBLS", id) = {} /\ EventsOf("insertBLS", id) = {}
                    /\ ~InBLSPool(id)
                    /\ id \notin Range(loops[1].submitted)
                /\ Has("validate", id, TRUE) =>
                    /\ id - 1 \notin ListedFailures
                    /\ Cardinality(EventsOf("notifyBLS", id)) = 1
                    /\ Cardinality(EventsOf("insertBLS", id)) = 1
                    /\ \A k \in EventsOf("notifyBLS", id) : log[k + 1] = Ev("insertBLS", id, TRUE)
                    /\ InBLSPool(id)
                    /\ id \in Range(loops[1].submitted) <=> loops[1].fork >= Capella
                    /\ Cardinality({k \in 1..Len(loops[1].submitted) : loops[1].submitted[k] = id}) <= 1

\* a batch of a change whose signature does not verify and a change that
\* passes, submitted while the head is before Capella: the second is
\* announced and kept in the pool, the goroutine is started with nothing
C25_Witness ==
    /\ ReachedItemLoop
    /\ Len(request.body.items) = 2
    /\ ~request.body.items[1].sig
    /\ Has("validate", 2, TRUE)
    /\ Len(loops) = 1 /\ loops[1].fork < Capella /\ loops[1].submitted = <<>>
    /\ InBLSPool(2) /\ ~InBLSPool(1)
    /\ response.kind = "failures"

-----------------------------------------------------------------------------
(* C26 *)

\* the bodies written to the response writer while the request was served:
\* none when the handler returned without writing, the first write, and
\* the writes made on a response already written
WritesMade ==
    (IF response.kind \in {"none", "ok"} THEN 0 ELSE 1) + Len(response.extra)

\* C26 as stated: a handler writes at most one error or JSON body to the
\* response writer per request, on every path of every endpoint; so does
\* SubmitAttesterSlashingsV2 when the version header is absent.
C26_Original == WritesMade <= 1

-----------------------------------------------------------------------------
(* C27 *)

\* no element occurs twice in seq
NoDuplicates(seq) == Cardinality(Range(seq)) = Len(seq)

\* what a goroutine has done so far with the changes it was started with:
\* it handed to the broadcaster changes it was started with only, each
\* once; a change handed to the broadcaster, whatever the broadcaster
\* answered, is no longer on its slice, and its slice is what is left of
\* the slice it was started with
OwnChangesOnce(l) ==
    /\ NoDuplicates(l.attempts)
    /\ Range(l.attempts) \subseteq Range(l.submitted)
    /\ l.failed \subseteq Range(l.attempts)
    /\ Range(l.attempts) \cap Range(Ids(l.changes)) = {}
    /\ Ids(l.changes) =
           SubSeq(l.submitted, Len(l.submitted) - Len(l.changes) + 1, Len(l.submitted))

\* a step in which the goroutine i takes changes off its slice or hands
\* changes to the broadcaster: the changes handed over are those taken off
\* the front of its own slice, and the slice and the broadcasts of every
\* other goroutine are as they were
OwnSliceOnly(i) ==
    LET l == loops[i]
        m == loops'[i]
        taken == SubSeq(l.changes, 1, Len(l.changes) - Len(m.changes))
    IN (m.changes # l.changes \/ m.attempts # l.attempts) =>
        /\ Len(m.changes) <= Len(l.changes)
        /\ m.changes = SubSeq(l.changes, Len(taken) + 1, Len(l.changes))
        /\ Len(m.attempts) >= Len(l.attempts)
        /\ SubSeq(m.attempts, 1, Len(l.attempts)) = l.attempts
        /\ Range(m.attempts) \ Range(l.attempts) \subseteq Range(Ids(taken))
        /\ \A j \in LoopIdx \ {i} :
            /\ loops'[j].changes = loops[j].changes
            /\ loops'[j].attempts = loops[j].attempts
            /\ loops'[j].failed = loops[j].failed

\* C27: over the life of a goroutine started by a submission, each change
\* of the batch is handed to the broadcaster at most once: a change whose
\* broadcast failed is not tried again, no change is broadcast in two
\* cycles, and the goroutine of one submission neither broadcasts nor
\* removes the changes of the goroutine of another submission running
\* beside it.
C27_OneAttempt ==
    /\ [](\A i \in LoopIdx : OwnChangesOnce(loops[i]))
    /\ [][\A i \in LoopIdx : OwnSliceOnly(i)]_vars

\* two goroutines side by side: the first has released the first 128 of
\* its changes, one of which the broadcaster refused, and waits for its
\* ticker with the change that is left; the second was started after it,
\* has broadcast its own changes and returned
C27_Witness ==
    /\ Len(loops) = 2
    /\ loops[1].st = "wait"
    /\ Len(loops[1].attempts) = broadcastBLSChangesRateLimit
    /\ Len(loops[1].changes) = 1
    /\ loops[1].failed # {}
    /\ loops[2].st = "exit" /\ loops[2].changes = <<>>
    /\ loops[2].attempts = loops[2].submitted /\ loops[2].attempts # <<>>

-----------------------------------------------------------------------------
(* C28 *)

\* the positions in the log of the events of the item id other than its
\* validation
PhaseBOf(id) == {j \in LogIdx : log[j].id = id /\ log[j].e # "validate"}

\* C28: when the Electra handler ends on the committee-index error of the
\* item k that passed validation, nothing is undone: an earlier item that
\* was broadcast stays broadcast and its pool save stands (the item is in
\* the pool unless the save itself was refused); the feed event of k, if
\* k is unaggregated, was sent before; no call is made for an item after
\* k; and the 400 carries neither the validation failures nor the failed
\* broadcasts recorded until then.
C28_NoRollback ==
    \A k \in Items : Has("committeeIndex", k, FALSE) =>
        /\ k \in Survivors
        /\ \A j \in Items : (j < k /\ Has("bcast", j, TRUE)) =>
            /\ SaveMade(j)
            /\ InAttPool(j) <=> (Has("insertAgg", j, TRUE) \/ Has("insertUnagg", j, TRUE))
        /\ Notifications(k) # {} <=> Bits(k) <= 1
        /\ \A n \in Notifications(k) : n < Len(log)
        /\ \A j \in Items : j > k => PhaseBOf(j) = {} /\ ~InAttPool(j)
        /\ response.status = StatusBadRequest
        /\ response.kind = "committeeIndex"
        /\ response.failures = <<>>
        /\ response.indices = <<>>

\* the first item was broadcast and saved; the second, unaggregated, was
\* announced and then ended the handler: the first is in the pool and the
\* answer is the 400 of the handler
C28_Witness ==
    /\ Has("committeeIndex", 2, FALSE)
    /\ Has("bcast", 1, TRUE)
    /\ InAttPool(1)
    /\ Bits(2) <= 1 /\ Has("notify", 2, TRUE)
    /\ response.kind = "committeeIndex"

-----------------------------------------------------------------------------
(* C29 *)

\* the exit pool holds the exit submitted and nothing else
ExitStaged == exitsPool = <<OpToConsensus(TheOp, "exit", "phase0")>>

\* C29: SubmitVoluntaryExit inserts an exit that verified into the exit
\* pool before it calls the broadcaster; when the broadcast fails the
\* request is answered 500 while the exit is in the pool, and the pool is
\* the same as after a broadcast that succeeded.
C29_ExitStagedBeforeBroadcast ==
    ep = "SubmitVoluntaryExit" =>
        /\ (\E k \in LogIdx : log[k].e = "verify" /\ log[k].ok) <=> BroadcastCalled
        /\ \A k \in LogIdx : log[k].e = "bcast" =>
            /\ k = Len(log)
            /\ k > 1 /\ log[k - 1] = Ev("insert", 1, TRUE)
            /\ ExitStaged
            /\ ~log[k].ok => response = HandleError("broadcast", StatusInternalServerError)
            /\ log[k].ok => response = EmptyOK

\* an exit that verified is in the pool and its broadcast failed
C29_Witness ==
    /\ ep = "SubmitVoluntaryExit"
    /\ Has("bcast", 1, FALSE)
    /\ ExitStaged
    /\ response.status = StatusInternalServerError

-----------------------------------------------------------------------------
(* C30 *)

\* the log positions of the validator lookups that failed
FailedLookups == {k \in LogIdx : log[k] = Ev("vals", log[k].id, FALSE)}

\* C30: in an attestation batch, when HeadValidatorsIndices fails for an
\* item that passed validation, the item is recorded among the failed
\* broadcasts (and listed in the 500, unless the handler ends on a
\* committee-index error) though the broadcaster is not called for it; it
\* is not saved in the pool; its feed event, if it is unaggregated, was
\* sent before the lookup; and the loop goes on with the next item.
C30_LookupFailure ==
    ep \in AttEndpoints =>
        \A k \in FailedLookups :
            LET id == log[k].id IN
            /\ id \in Survivors
            /\ ~Fatal =>
                /\ response.status = StatusInternalServerError
                /\ response.kind = "broadcast"
                /\ SurvivorIndex(id) \in Range(response.indices)
            /\ \A j \in PhaseBOf(id) : log[j].e \in {"notify", "vals"}
            /\ ~InAttPool(id)
            /\ Notifications(id) # {} <=> Bits(id) <= 1
            /\ \A n \in Notifications(id) : n < k
            /\ \A j \in Survivors : (j > id /\ Reached(j)) =>
                \E n \in LogIdx : n > k /\ log[n].e = "vals" /\ log[n].id = j

\* the validator lookup failed for the first item, unaggregated and
\* announced; the second item was then looked up, broadcast and saved; the
\* answer is the 500 that lists the first
C30_Witness ==
    /\ ep \in AttEndpoints
    /\ Has("vals", 1, FALSE)
    /\ Has("notify", 1, TRUE)
    /\ ~InAttPool(1)
    /\ Has("bcast", 2, TRUE) /\ InAttPool(2)
    /\ response.status = StatusInternalServerError
    /\ Range(response.indices) = {0}

====
